---- MODULE Spec2Model ----
(***************************************************************************)
(* ET Legacy server manager: the install / update workflow of              *)
(* lib/installer.py and its collaborators (config templating, service      *)
(* units, permissions, firewall, instance registry).                       *)
(*                                                                         *)
(* Module-level names the handlers use (re, time, BashRunner, Panel) are   *)
(* taken to resolve to the standard modules and the repository's classes.  *)
(* Text is modelled as a sequence of tokens: a directive literal such as   *)
(* "set g_password" is one token, every other token is one character       *)
(* class (WS, NL, Q, BS, a letter) or one rendered number.                 *)
(***************************************************************************)
EXTENDS Integers, Sequences, FiniteSets, TLC

VARIABLES
    \* ---- config templating (Installer._configure_server / export) ----
    config,         \* the settings mapping handed to _configure_server
    cfg_content,    \* etl_server.cfg: token sequence, or NoFile
    cfg_first,      \* file content after the first _configure_server call
    applied,        \* number of completed _configure_server calls
    cfg_raised,     \* TRUE when the last _configure_server call raised
    exported        \* mapping written by export_server_config, or NotExported

cfgVars == <<config, cfg_content, cfg_first, applied, cfg_raised, exported>>

VARIABLES
    \* ---- instance registry (ServerManager.get_installed_servers) ----
    service_dir,    \* /etc/systemd/system/etlserver-*.service: name -> file
    servers,        \* the list get_installed_servers returned
    warnings,       \* unit files that produced a warning in the last scan
    scanned         \* TRUE once get_installed_servers has returned

regVars == <<service_dir, servers, warnings, scanned>>

VARIABLES
    \* ---- permissions (PermissionsManager.set_file_permissions) ----
    tree,           \* the tree rooted at <install_dir>/et: node -> entry
    perm_result     \* what set_file_permissions returned, "none" before

permVars == <<tree, perm_result>>

VARIABLES
    \* ---- Installer.install_server and the host it acts on ----
    pc,             \* the step install_server executes next, "idle" outside a call
    cur,            \* the config of the current (or last) install_server call
    result,         \* "True" / "False" returned, "raised", "none" while running
    log,            \* the steps of the current (or last) call with their outcome
    fails,          \* failures injected so far
    calls,          \* install_server calls so far
    map_i,          \* index into maps_list inside _install_maps
    map_attempts,   \* the wget commands of _install_maps in this call, in
                    \* order: the map and whether a warning was printed
    fs,             \* (install dir, port) -> what <install_dir>/et/<port> holds
    server_unit,    \* port -> ExecStart directory of etlserver-<port>.service
    restart_unit,   \* port -> port named in etlrestart-<port>.service, 0 if absent
    timer_unit,     \* port -> port named in etlmonitor-<port>.timer, 0 if absent
    enabled,        \* units enabled with systemctl enable
    active,         \* port -> systemctl is-active etlserver-<port> says "active"
    fw_rules,       \* ports with an applied "ufw allow <port>/udp" rule
    group_ok,       \* group etusers exists with both members
    artifact        \* the installer script is in /tmp/etlegacy-installer

runVars == <<pc, cur, result, log, fails, calls, map_i, map_attempts>>
hostVars == <<fs, server_unit, restart_unit, timer_unit, enabled, active,
              fw_rules, group_ok, artifact>>
instVars == <<runVars, hostVars>>

VARIABLES
    \* ---- Installer.update_server and the three directories it handles ----
    upc,            \* the step update_server executes next, "idle" outside a call
    server_dir,     \* what <install_dir>/et/<port> holds
    temp_dir,       \* what <install_dir>/et/<port>_old holds
    backup_dir,     \* what <install_dir>/et/<port>_backup_<time> of this call holds
    before,         \* server_dir as it was when update_server was called
    shipped,        \* what the vendor installer wrote in this call
    returncode,     \* exit status of the vendor installer, -1 before it ran
    update_result,  \* "True" / "False" returned, "raised", "none" while running
    updates,        \* update_server calls so far
    update_fails,   \* failures injected so far
    prev_returncode,\* returncode of the previous update_server call, -1 if none
    prev_before,    \* server_dir when the previous update_server call began
    \* ---- the service of the instance and MainMenu._perform_server_update ----
    mpc,            \* _perform_server_update: "menu", "update", "called"
    is_running,     \* its local is_running
    running,        \* systemctl is-active etlserver-<port> says "active"
    running_at_call,\* running when update_server was called
    systemctl_log   \* the start / stop commands issued so far, with the issuer

updVars == <<upc, server_dir, temp_dir, backup_dir, before, shipped,
             returncode, update_result, updates, update_fails,
             prev_returncode, prev_before,
             mpc, is_running, running, running_at_call, systemctl_log>>

VARIABLES
    \* ---- DownloadManager.get_available_versions and the wizard's step 3 ----
    stable_src,     \* the download page: reachable or not, its links
    dev_src,        \* the workflow-files page: reachable or not, its links
    versions,       \* what get_available_versions returned, NotListed before
    ver_warnings,   \* the sources get_available_versions warned about
    wizard_step     \* step 3 of InstallWizard.run: "none", "None", "chosen"

verVars == <<stable_src, dev_src, versions, ver_warnings, wizard_step>>

VARIABLES
    \* ---- FirewallManager and the packet filter (ufw) ----
    ufw_installed,  \* the ufw binary is on the host
    ufw_active,     \* "ufw status" does not say inactive
    ufw_rules,      \* the allow rules ufw holds
    fw_log,         \* the allow commands issued, each with ufw_installed then
    fw_last,        \* the FirewallManager method that returned last, "none"
    fw_calls        \* FirewallManager calls so far

fwVars == <<ufw_installed, ufw_active, ufw_rules, fw_log, fw_last, fw_calls>>

VARIABLES
    \* ---- PermissionsManager.setup_etl_group and the group database ----
    grp_db,         \* group etusers: whether it exists, its members
    grp_user,       \* os.getenv("SUDO_USER", os.getenv("USER"))
    grp_result,     \* what the last setup_etl_group call returned, "none" before
    grp_cmds,       \* the commands the last call issued
    grp_before,     \* grp_db when the last call began
    grp_fail,       \* the command that failed in the last call, "none"
    grp_done_once,  \* a call before the last one returned True
    grp_calls       \* setup_etl_group calls so far

grpVars == <<grp_db, grp_user, grp_result, grp_cmds, grp_before, grp_fail,
             grp_done_once, grp_calls>>

VARIABLES
    \* ---- SystemServiceManager.configure_etl_services ----
    svc_pc,         \* position in configure_etl_services
    svc_args,       \* (install_dir, port, server_dir) of the call
    svc_i,          \* index of the file to write / the unit to enable next
    svc_units,      \* /etc/systemd/system: file name -> text written
    svc_trace,      \* what the call did so far: writes and commands, in order
    svc_result,     \* what the last call returned, "none" before
    svc_calls       \* configure_etl_services calls so far

svcVars == <<svc_pc, svc_args, svc_i, svc_units, svc_trace, svc_result, svc_calls>>

VARIABLES
    \* ---- ConfigManager.save_env_file / load_env_file ----
    env_pc,         \* "save", "load", "save_again", "done"; "idle" when unused
    env_config,     \* the mapping given to the first save_env_file
    env_file,       \* the file the first save_env_file wrote
    env_loaded,     \* the mapping load_env_file returned for that file
    env_file2       \* the file save_env_file wrote for the loaded mapping

envVars == <<env_pc, env_config, env_file, env_loaded, env_file2>>

vars == <<cfgVars, regVars, permVars, instVars, updVars, verVars, fwVars, grpVars, svcVars, envVars>>

----------------------------------------------------------------------------
(* Bounds                                                                  *)

MaxValLen == 2      \* longest user-supplied string value, in tokens
MaxApply == 2       \* _configure_server calls per behaviour
MaxNameLen == 2     \* longest <port> part of a unit file name, in characters
MaxUnitFiles == 2   \* unit files in the service directory
MaxInstalls == 2    \* install_server calls per behaviour
MaxFailures == 1    \* failing steps per behaviour
NumMaps == 2        \* entries of maps_list that are modelled
MaxUpdates == 2     \* update_server calls per behaviour
MaxStableLinks == 2 \* download links on the stable page
MaxDevLinks == 5    \* download links on the workflow-files page
MaxFwCalls == 2     \* FirewallManager calls per behaviour
MaxGroupCalls == 3  \* setup_etl_group calls per behaviour
MaxSvcCalls == 2    \* configure_etl_services calls per behaviour
MaxEnvLen == 2      \* characters of a string value of an environment file

----------------------------------------------------------------------------
(* Tokens and small helpers                                                *)

WS == "WS"          \* a blank or tab
NL == "NL"          \* line feed
Q  == "Q"           \* double quote
BS == "BS"          \* backslash
Letter == "z"       \* an ASCII letter

NoFile == <<"NoFile">>   \* the file does not exist
NotExported == [status |-> "none"]

\* the strings a user can type into a prompt
RECURSIVE StrOfLen(_)
StrOfLen(n) ==
    IF n = 0 THEN { <<>> }
    ELSE { Append(s, c) : s \in StrOfLen(n - 1), c \in {Letter, Q, BS} }

StrValues == UNION { StrOfLen(n) : n \in 0..MaxValLen }

\* least index >= from whose token is in S, Len(s)+1 when there is none
FirstIdx(s, from, S) ==
    LET hits == { i \in from..Len(s) : s[i] \in S }
    IN  IF hits = {} THEN Len(s) + 1
        ELSE CHOOSE i \in hits : \A k \in hits : i <= k

\* least index >= from whose token is NOT in S, Len(s)+1 when there is none
FirstNotIdx(s, from, S) ==
    LET hits == { i \in from..Len(s) : s[i] \notin S }
    IN  IF hits = {} THEN Len(s) + 1
        ELSE CHOOSE i \in hits : \A k \in hits : i <= k

Slice(s, a, b) == IF a > b THEN <<>> ELSE SubSeq(s, a, b)

----------------------------------------------------------------------------
(* Installer._configure_server: re.sub over the directive table            *)

Get(c, key, default) == IF key \in DOMAIN c THEN c[key] ELSE default

\* the replacements dict, in insertion order: directive, replacement value
replacements(c) == <<
    [directive |-> "set sv_hostname",        value |-> c["servername"]],
    [directive |-> "set g_password",         value |-> c["g_password"]],
    [directive |-> "set sv_maxclients",      value |-> c["sv_maxclients"]],
    [directive |-> "set sv_privateclients",  value |-> c["sv_privateclients"]],
    [directive |-> "set sv_privatepassword", value |-> Get(c, "sv_privatepassword", <<>>)],
    [directive |-> "set rconpassword",       value |-> c["rconpassword"]],
    [directive |-> "set refereePassword",    value |-> c["refereepassword"]],
    [directive |-> "set ShoutcastPassword",  value |-> c["ShoutcastPassword"]],
    [directive |-> "set sv_wwwBaseURL",      value |-> Get(c, "sv_wwwBaseURL", <<>>)],
    [directive |-> "set sv_hidden",          value |-> <<"0">>],
    [directive |-> "set net_port",           value |-> c["port"]] >>

\* the f-string  set <key> "<value>"  before re.sub reads it as a template
Template(r) == <<r.directive, WS, Q>> \o r.value \o <<Q>>

\* re.sub parses the replacement as a template: a backslash before an ASCII
\* letter is "bad escape" (re.error)
BadEscape(t) == \E i \in 1..(Len(t) - 1) : t[i] = BS /\ t[i + 1] = Letter

\* ... "\\" becomes one backslash, a backslash before any other character
\* stays as it is
RECURSIVE ExpandFrom(_, _)
ExpandFrom(t, i) ==
    IF i > Len(t) THEN <<>>
    ELSE IF t[i] = BS /\ i < Len(t)
         THEN IF t[i + 1] = BS
              THEN <<BS>> \o ExpandFrom(t, i + 2)
              ELSE <<BS, t[i + 1]>> \o ExpandFrom(t, i + 2)
         ELSE <<t[i]>> \o ExpandFrom(t, i + 1)

ExpandTemplate(t) == ExpandFrom(t, 1)

\* end index of a match of  <directive>\s+".*?"  starting at i, 0 if none:
\* the directive, at least one white-space character, a quote, then lazily
\* up to the next quote of the same line ('.' does not match a line feed)
SubMatchEnd(s, i, d) ==
    IF s[i] # d THEN 0
    ELSE LET j == FirstNotIdx(s, i + 1, {WS, NL})
         IN  IF j = i + 1 \/ j > Len(s) \/ s[j] # Q THEN 0
             ELSE LET e  == FirstIdx(s, j + 1, {Q})
                      nl == FirstIdx(s, j + 1, {NL})
                  IN  IF e <= Len(s) /\ e < nl THEN e ELSE 0

\* least start index >= i of a match of the pattern, 0 if none
NextMatch(s, i, d) ==
    LET starts == { m \in i..Len(s) : SubMatchEnd(s, m, d) > 0 }
    IN  IF starts = {} THEN 0
        ELSE CHOOSE m \in starts : \A k \in starts : m <= k

\* re.sub(pattern, replacement, s): every non-overlapping match, left to
\* right; replaced text is not scanned again
RECURSIVE SubFrom(_, _, _, _)
SubFrom(s, i, d, repl) ==
    LET m == NextMatch(s, i, d)
    IN  IF m = 0 THEN Slice(s, i, Len(s))
        ELSE Slice(s, i, m - 1) \o repl \o SubFrom(s, SubMatchEnd(s, m, d) + 1, d, repl)

ReSub(d, template, s) == SubFrom(s, 1, d, ExpandTemplate(template))

\* for pattern, replacement in replacements.items(): cfg_content = re.sub(...)
RECURSIVE ApplyReplacements(_, _, _)
ApplyReplacements(rs, k, s) ==
    IF k > Len(rs) THEN s
    ELSE \* (the set constructor only makes re.sub run before the next one)
         CHOOSE out \in { ApplyReplacements(rs, k + 1, x) :
                            x \in { ReSub(rs[k].directive, Template(rs[k]), s) } } : TRUE

\* does _configure_server raise on this config (file present)?
ConfigureRaises(c) ==
    \E k \in 1..Len(replacements(c)) : BadEscape(Template(replacements(c)[k]))

\* the file content _configure_server leaves behind
ConfigureServer(c, content) ==
    IF content = NoFile THEN NoFile
    ELSE IF ConfigureRaises(c) THEN content
    ELSE ApplyReplacements(replacements(c), 1, content)

----------------------------------------------------------------------------
(* ConfigManager.export_server_config and the name lookup of               *)
(* ServerManager.get_installed_servers                                     *)

NoMatch == <<"NoMatch">>

\* end index of a match of  <directive>\s+"(.+?)"  starting at i, 0 if none:
\* as above, but the group takes at least one character
SearchMatchEnd(s, i, d) ==
    IF s[i] # d THEN 0
    ELSE LET j == FirstNotIdx(s, i + 1, {WS, NL})
         IN  IF j = i + 1 \/ j > Len(s) \/ s[j] # Q THEN 0
             ELSE LET e  == FirstIdx(s, j + 2, {Q})
                      nl == FirstIdx(s, j + 1, {NL})
                  IN  IF e <= Len(s) /\ e < nl THEN e ELSE 0

\* group 1 of re.search(<directive>\s+"(.+?)", s): first match from the left
SearchFrom(s, i, d) ==
    LET starts == { m \in i..Len(s) : SearchMatchEnd(s, m, d) > 0 }
    IN  IF starts = {} THEN NoMatch
        ELSE LET m == CHOOSE m \in starts : \A k \in starts : m <= k
                 j == FirstNotIdx(s, m + 1, {WS, NL})
             IN  Slice(s, j + 1, SearchMatchEnd(s, m, d) - 1)

ReSearch(d, s) == SearchFrom(s, 1, d)

DefaultServerName == <<"ET Legacy Server">>

\* server_info["name"] as get_installed_servers reads it from the cfg file
ServerName(content) ==
    IF content = NoFile THEN DefaultServerName
    ELSE LET m == ReSearch("set sv_hostname", content)
         IN  IF m = NoMatch THEN DefaultServerName ELSE m

\* the patterns dict of export_server_config: settings key, directive
patterns == <<
    [key |-> "sv_maxclients",      directive |-> "set sv_maxclients"],
    [key |-> "g_password",         directive |-> "set g_password"],
    [key |-> "sv_privateclients",  directive |-> "set sv_privateclients"],
    [key |-> "sv_privatepassword", directive |-> "set sv_privatepassword"],
    [key |-> "rconpassword",       directive |-> "set rconpassword"],
    [key |-> "refereepassword",    directive |-> "set refereePassword"],
    [key |-> "ShoutcastPassword",  directive |-> "set ShoutcastPassword"],
    [key |-> "sv_wwwBaseURL",      directive |-> "set sv_wwwBaseURL"] >>

\* the config dict export_server_config builds from server_info and the file
ExportConfig(name, port, content) ==
    LET base == [k \in {"servername", "port"} |->
                    IF k = "servername" THEN name ELSE port]
        found == { k \in 1..Len(patterns) :
                     content # NoFile /\ ReSearch(patterns[k].directive, content) # NoMatch }
        keys == {"servername", "port"} \cup { patterns[k].key : k \in found }
    IN  [ key \in keys |->
            IF key \in DOMAIN base THEN base[key]
            ELSE LET k == CHOOSE k \in found : patterns[k].key = key
                 IN  ReSearch(patterns[k].directive, content) ]

\* the defaults save_env_file writes for a missing key
EnvDefault(key) ==
    CASE key = "port" -> <<"27960">>
      [] key = "sv_maxclients" -> <<"16">>
      [] key = "sv_privateclients" -> <<"0">>
      [] OTHER -> <<>>

SettingKeys == {"servername", "port", "sv_maxclients", "g_password",
                "sv_privateclients", "sv_privatepassword", "rconpassword",
                "refereepassword", "ShoutcastPassword", "sv_wwwBaseURL"}

\* the value save_env_file writes for every settings key of the mapping
SavedSettings(c) == [ key \in SettingKeys |-> Get(c, key, EnvDefault(key)) ]

ExportServerConfig(name, port, content) ==
    SavedSettings(ExportConfig(name, port, content))

----------------------------------------------------------------------------
(* Specification SpecCfg: _configure_server and export_server_config on    *)
(* bounded config files and settings                                       *)

\* the mapping InstallWizard.run returns (string prompts h and p; the
\* private-slot password is asked only when private slots are requested)
WizardConfig(h, p, private) ==
    LET keys == (SettingKeys \ {"sv_privatepassword"})
                  \cup (IF private THEN {"sv_privatepassword"} ELSE {})
    IN  [ key \in keys |->
            CASE key = "servername" -> h
              [] key = "port" -> <<"27960">>
              [] key = "sv_maxclients" -> <<"16">>
              [] key = "sv_privateclients" -> IF private THEN <<"2">> ELSE <<"0">>
              [] OTHER -> p ]

Configs == { WizardConfig(h, p, private) :
                h \in StrValues, p \in StrValues, private \in BOOLEAN }

Directives == { "set sv_hostname", "set g_password", "set sv_maxclients",
                "set sv_privateclients", "set sv_privatepassword",
                "set rconpassword", "set refereePassword",
                "set ShoutcastPassword", "set sv_wwwBaseURL", "set sv_hidden",
                "set net_port" }

DirectiveOrder == <<
    "set sv_hostname", "set net_port", "set sv_maxclients", "set g_password",
    "set sv_privateclients", "set sv_privatepassword", "set rconpassword",
    "set refereePassword", "set ShoutcastPassword", "set sv_wwwBaseURL",
    "set sv_hidden" >>

\* one line of a shipped etl_server.cfg:  set <key> "<old>"<tail>
Line(d, old, tail) == <<d, WS, Q>> \o old \o <<Q>> \o tail \o <<NL>>

RECURSIVE LinesFrom(_, _, _, _)
LinesFrom(k, old, tail, missing) ==
    IF k > Len(DirectiveOrder) THEN <<>>
    ELSE (IF DirectiveOrder[k] \in missing THEN <<>>
          ELSE Line(DirectiveOrder[k], old, tail))
         \o LinesFrom(k + 1, old, tail, missing)

\* a comment line, then the directives the release ships
ShippedCfg(old, tail, missing) ==
    <<Letter, WS, Q, Letter, Q, NL>> \o LinesFrom(1, old, tail, missing)

BaseFiles ==
    { ShippedCfg(old, tail, missing) :
        old \in { <<>>, <<Letter>> },
        tail \in { <<>>, <<WS, Letter>> },
        missing \in { {}, {"set g_password", "set net_port"} } }

\* the permission variables when no tree is modelled
InitPermIdle ==
    /\ tree = <<>>
    /\ perm_result = "none"

----------------------------------------------------------------------------
(* The host install_server acts on                                         *)

Ports == {7, 8}
InstallDirs == {"a", "b"}

NoPath == <<>>

\* f"{install_dir}/et/{port}" for the absolute install directory /<d>
ServerDir(d, p) == <<"", d, "et", ToString(p)>>

\* <install_dir>/et/<port> before anything created it
NoDir == [exists |-> FALSE, installed |-> FALSE, cfg_port |-> "none",
          script_port |-> "none", maps |-> {}]

\* the first entries of maps_list
MapsList == <<"adlernest.pk3", "etl_adlernest_v4.pk3", "badplace4_rc.pk3",
              "etl_bergen_v9.pk3">>

\* a host on which the tool has not run yet
InitHost ==
    /\ fs = [k \in InstallDirs \X Ports |-> NoDir]
    /\ server_unit = [q \in Ports |-> NoPath]
    /\ restart_unit = [q \in Ports |-> 0]
    /\ timer_unit = [q \in Ports |-> 0]
    /\ enabled = {}
    /\ active = [q \in Ports |-> FALSE]
    /\ fw_rules = {}
    /\ group_ok = FALSE
    /\ artifact = FALSE

NoCall == [port |-> 0, installDir |-> "", install_maps |-> "True",
           configure_firewall |-> "True", ftpuser |-> FALSE, fresh |-> FALSE]

InitRun ==
    /\ pc = "idle"
    /\ cur = NoCall
    /\ result = "none"
    /\ log = <<>>
    /\ fails = 0
    /\ calls = 0
    /\ map_i = 0
    /\ map_attempts = <<>>

\* the install variables when no install is modelled
InitInstIdle == InitRun /\ InitHost

Range(s) == { s[i] : i \in 1..Len(s) }

\* the files update_server backs up and restores (lines 167 and 203)
ConfigFiles == <<"etl_server.cfg", "configs", "mapscripts">>

\* content of a path that does not exist
NoEntry == {"ENOENT"}

\* a directory that does not exist / that exists and holds nothing
Absent == [exists |-> FALSE, files |-> [f \in Range(ConfigFiles) |-> NoEntry],
           pk3 |-> {}, legacy |-> {}, script |-> FALSE]
EmptyDir == [Absent EXCEPT !.exists = TRUE]

\* get_available_versions has not been called
NotListed == [raised |-> FALSE, called |-> FALSE, list |-> <<>>]

\* a page that could not be fetched
Unreachable == [ok |-> FALSE, links |-> <<>>]

InitVerIdle ==
    /\ stable_src = Unreachable
    /\ dev_src = Unreachable
    /\ versions = NotListed
    /\ ver_warnings = {}
    /\ wizard_step = "none"

InitFwIdle ==
    /\ ufw_installed = FALSE
    /\ ufw_active = FALSE
    /\ ufw_rules = {}
    /\ fw_log = {}
    /\ fw_last = "none"
    /\ fw_calls = 0

\* the group database without etusers
NoGroup == [exists |-> FALSE, members |-> {}]

InitGrpIdle ==
    /\ grp_db = NoGroup
    /\ grp_user = "root"
    /\ grp_result = "none"
    /\ grp_cmds = <<>>
    /\ grp_before = NoGroup
    /\ grp_fail = "none"
    /\ grp_done_once = FALSE
    /\ grp_calls = 0

\* configure_etl_services has not been called
NoArgs == [install_dir |-> "", port |-> 0, server_dir |-> NoPath]

InitSvcIdle ==
    /\ svc_pc = "idle"
    /\ svc_args = NoArgs
    /\ svc_i = 1
    /\ svc_units = <<>>
    /\ svc_trace = <<>>
    /\ svc_result = "none"
    /\ svc_calls = 0

\* save_env_file and load_env_file are not used
InitEnvIdle ==
    /\ env_pc = "idle"
    /\ env_config = <<>>
    /\ env_file = <<>>
    /\ env_loaded = <<>>
    /\ env_file2 = <<>>

InitUpdIdle ==
    /\ upc = "idle"
    /\ server_dir = Absent
    /\ temp_dir = Absent
    /\ backup_dir = Absent
    /\ before = Absent
    /\ shipped = Absent
    /\ returncode = -1
    /\ update_result = "none"
    /\ updates = 0
    /\ update_fails = 0
    /\ prev_returncode = -1
    /\ prev_before = Absent
    /\ mpc = "menu"
    /\ is_running = FALSE
    /\ running = FALSE
    /\ running_at_call = FALSE
    /\ systemctl_log = {}


\* the registry variables when no scan is modelled
InitRegIdle ==
    /\ service_dir = <<>>
    /\ servers = <<>>
    /\ warnings = {}
    /\ scanned = FALSE

InitCfg ==
    /\ config \in Configs
    /\ cfg_content \in BaseFiles \cup {NoFile}
    /\ cfg_first = cfg_content
    /\ applied = 0
    /\ cfg_raised = FALSE
    /\ exported = NotExported

\* the templating variables when no templating is modelled
InitCfgIdle ==
    /\ config = WizardConfig(<<>>, <<>>, FALSE)
    /\ cfg_content = NoFile
    /\ cfg_first = NoFile
    /\ applied = 0
    /\ cfg_raised = FALSE
    /\ exported = NotExported

\* Installer._configure_server(config, server_dir)
ConfigureServerCall ==
    /\ applied < MaxApply
    /\ exported = NotExported
    /\ cfg_content' = ConfigureServer(config, cfg_content)
    /\ cfg_raised' = (cfg_content # NoFile /\ ConfigureRaises(config))
    /\ applied' = applied + 1
    /\ cfg_first' = IF applied = 0 THEN cfg_content' ELSE cfg_first
    /\ UNCHANGED <<config, exported>>

\* ConfigManager.export_server_config(server_info), server_info as
\* get_installed_servers builds it for this instance
ExportServerConfigCall ==
    /\ exported = NotExported
    /\ exported' = ExportServerConfig(ServerName(cfg_content), config["port"], cfg_content)
    /\ UNCHANGED <<config, cfg_content, cfg_first, applied, cfg_raised>>

NextCfg == (ConfigureServerCall \/ ExportServerConfigCall)
           /\ UNCHANGED <<regVars, permVars, instVars, updVars, verVars, fwVars, grpVars, svcVars, envVars>>

InitSpecCfg == InitCfg /\ InitRegIdle /\ InitPermIdle /\ InitInstIdle /\ InitUpdIdle /\ InitVerIdle /\ InitFwIdle /\ InitGrpIdle /\ InitSvcIdle /\ InitEnvIdle

SpecCfg == InitSpecCfg /\ [][NextCfg]_vars

----------------------------------------------------------------------------
(* Claims about config templating (SpecCfg)                                *)

\* the file carries every directive of the replacement table
HasDirectives(content) == content # NoFile /\ Directives \subseteq Range(content)

\* C6: applying _configure_server twice with the same settings leaves exactly
\* the file content that applying it once leaves, for every settings map
\* (values with a double quote, a backslash, or empty included).
C6_ConfigureIdempotent ==
    applied = 2 => cfg_content = cfg_first

\* C7: for a file that contains the directives, export_server_config applied
\* to the file written by _configure_server(S) recovers exactly S's value for
\* every key (hostname, passwords, client limits, port, download base URL),
\* empty values included.
C7_ExportRecoversSettings ==
    (/\ exported # NotExported
     /\ applied >= 1
     /\ ~cfg_raised
     /\ HasDirectives(cfg_content))
    => \A key \in SettingKeys : exported[key] = Get(config, key, <<>>)

----------------------------------------------------------------------------
(* ServerManager.get_installed_servers                                     *)

\* a path is the sequence of its parts between slashes: "/a/et/7" is
\* <<"", "a", "et", "7">>, "a/et/7" is <<"a", "et", "7">>
AllEmpty(parts) == \A i \in 1..Len(parts) : parts[i] = ""

RECURSIVE RStripSlashes(_)
RStripSlashes(parts) ==
    IF Len(parts) > 0 /\ parts[Len(parts)] = ""
    THEN RStripSlashes(SubSeq(parts, 1, Len(parts) - 1))
    ELSE parts

\* os.path.dirname: everything before the last slash, trailing slashes of
\* the head removed unless the head is slashes only
Dirname(parts) ==
    IF Len(parts) <= 1 THEN <<>>
    ELSE LET head == SubSeq(parts, 1, Len(parts) - 1)
         IN  IF AllEmpty(head) THEN head \o <<"">> ELSE RStripSlashes(head)

Digits == <<"0", "1", "2", "3", "4", "5", "6", "7", "8", "9">>
DigitChars == { Digits[i] : i \in 1..Len(Digits) }

\* the characters unit-file names are drawn from in SpecReg
NameChars == {"0", "x"}

DigitValue(ch) == (CHOOSE i \in 1..Len(Digits) : Digits[i] = ch) - 1

\* f"{port}": the decimal digits of a non-negative integer
RECURSIVE PortName(_)
PortName(n) ==
    IF n < 10 THEN <<Digits[n + 1]>>
    ELSE Append(PortName(n \div 10), Digits[(n % 10) + 1])

\* int(<digits>)
RECURSIVE ParseInt(_)
ParseInt(ds) ==
    IF Len(ds) = 0 THEN 0
    ELSE 10 * ParseInt(SubSeq(ds, 1, Len(ds) - 1)) + DigitValue(ds[Len(ds)])

\* re.search(r'etlserver-(\d+)\.service', path) on etlserver-<name>.service
PortMatch(name) == Len(name) > 0 /\ \A i \in 1..Len(name) : name[i] \in DigitChars

NoUnit == [kind |-> "absent"]

\* what one iteration of the loop appends: <<record>> or nothing
ScanUnit(name, file, cfg, version) ==
    IF ~PortMatch(name) \/ file.kind # "unit" THEN <<>>
    ELSE << [ name       |-> ServerName(cfg),
              port       |-> ParseInt(name),
              version    |-> version,
              dir        |-> file.server_dir,
              installDir |-> Dirname(Dirname(file.server_dir)) ] >>

\* open() of the unit file raises: the except clause prints a warning
ScanWarns(name, file) == PortMatch(name) /\ file.kind = "unreadable"

\* a faulty scan with the try block around the whole loop: the first file
\* that cannot be read ends the scan
RECURSIVE ScanAbortOnError(_, _, _, _)
ScanAbortOnError(order, dir, cfgOf, version) ==
    IF Len(order) = 0 \/ ScanWarns(order[1], dir[order[1]]) THEN <<>>
    ELSE ScanUnit(order[1], dir[order[1]], cfgOf[order[1]], version)
         \o ScanAbortOnError(Tail(order), dir, cfgOf, version)

\* the loop over glob.glob(...) in the order the glob returned the files
RECURSIVE ScanAll(_, _, _, _)
ScanAll(order, dir, cfgOf, version) ==
    IF Len(order) = 0 THEN <<>>
    ELSE ScanUnit(order[1], dir[order[1]], cfgOf[order[1]], version)
         \o ScanAll(Tail(order), dir, cfgOf, version)

\* every order glob.glob can return the files of a directory in
Orders(names) ==
    { o \in [1..Cardinality(names) -> names] :
        \A i, j \in 1..Cardinality(names) : i # j => o[i] # o[j] }

----------------------------------------------------------------------------
(* Specification SpecReg: get_installed_servers on bounded directories     *)

RECURSIVE NamesOfLen(_)
NamesOfLen(n) ==
    IF n = 0 THEN { <<>> }
    ELSE { Append(s, c) : s \in NamesOfLen(n - 1), c \in NameChars }

UnitNames == UNION { NamesOfLen(n) : n \in 1..MaxNameLen }

ServerDirs == { <<"", "a", "et", "7">>, <<"", "b", "et", "7">>, <<"a", "", "et", "7">> }

UnitFiles == { [kind |-> "unreadable"], [kind |-> "noexec"] }
             \cup { [kind |-> "unit", server_dir |-> d] : d \in ServerDirs }

InitReg ==
    /\ \E names \in SUBSET UnitNames :
          /\ Cardinality(names) <= MaxUnitFiles
          /\ service_dir \in [names -> UnitFiles]
    /\ servers = <<>>
    /\ warnings = {}
    /\ scanned = FALSE

\* ServerManager.get_installed_servers()
GetInstalledServers ==
    /\ ~scanned
    /\ \E order \in Orders(DOMAIN service_dir), version \in {"Unknown", "2.81.1"} :
          servers' = ScanAll(order, service_dir,
                             [n \in DOMAIN service_dir |-> NoFile], version)
    /\ warnings' = { n \in DOMAIN service_dir : ScanWarns(n, service_dir[n]) }
    /\ scanned' = TRUE
    /\ UNCHANGED service_dir

NextReg == GetInstalledServers /\ UNCHANGED <<cfgVars, permVars, instVars, updVars, verVars, fwVars, grpVars, svcVars, envVars>>

InitSpecReg == InitReg /\ InitCfgIdle /\ InitPermIdle /\ InitInstIdle /\ InitUpdIdle /\ InitVerIdle /\ InitFwIdle /\ InitGrpIdle /\ InitSvcIdle /\ InitEnvIdle

SpecReg == InitSpecReg /\ [][NextReg]_vars

\* C4: whatever the service-unit directory holds, the list returned by
\* get_installed_servers never has two records with the same port (unit files
\* whose names differ only by leading zeros of the port included).
C4_PortsUnique ==
    scanned => \A i, j \in 1..Len(servers) :
                  i # j => servers[i].port # servers[j].port

----------------------------------------------------------------------------
(* PermissionsManager.set_file_permissions                                 *)

MODE_775 == 509         \* 0o775
MODE_664 == 436         \* 0o664
S_ISGID == 1024         \* 0o2000

HasBit(mode, bit) == (mode \div bit) % 2 = 1
BitOr(mode, bit) == IF HasBit(mode, bit) THEN mode ELSE mode + bit

SetGid(mode) == HasBit(mode, 1024)          \* 0o2000
GroupWritable(mode) == HasBit(mode, 16)     \* 0o020
OwnerExec(mode) == HasBit(mode, 64)         \* 0o100

Root == "et"            \* f"{install_dir}/et", the top of os.walk

\* for root, dirs, files in os.walk(top): every directory listed in some
\* dirs (all but the top itself) gets 775 then the setgid bit, every entry
\* of some files gets 664
WalkPass(t) ==
    [ n \in DOMAIN t |->
        IF t[n].kind = "dir" /\ n # Root
        THEN [t[n] EXCEPT !.mode = BitOr(MODE_775, S_ISGID)]
        ELSE IF t[n].kind = "file"
        THEN [t[n] EXCEPT !.mode = MODE_664]
        ELSE t[n] ]

\* find <top> -name '*<ext>' -type f -exec chmod 775 {} \;
FindPass(t, ext) ==
    [ n \in DOMAIN t |->
        IF t[n].kind = "file" /\ t[n].suffix = ext
        THEN [t[n] EXCEPT !.mode = MODE_775]
        ELSE t[n] ]

\* the tree after the step at which the handler stopped
SetFilePermissions(t, outcome) ==
    CASE outcome = "chgrp_failed" -> t
      [] outcome = "walk_done_find_failed" -> WalkPass(t)
      [] outcome = "second_find_failed" -> FindPass(WalkPass(t), ".sh")
      [] OTHER -> FindPass(FindPass(WalkPass(t), ".sh"), ".x86_64")

PermOutcomes == {"ok", "chgrp_failed", "walk_done_find_failed", "second_find_failed"}

----------------------------------------------------------------------------
(* Specification SpecPerm: set_file_permissions on bounded trees           *)

\* the layout install_server creates below <install_dir>/et
Shape ==
    [ n \in {"et", "et/7", "et/7/etmain", "et/7/legacy", "et/7/etl_start.sh",
             "et/7/etlded.x86_64", "et/7/etmain/etl_server.cfg",
             "et/7/legacy/tool.sh"} |->
        CASE n = "et" -> [kind |-> "dir", suffix |-> ""]
          [] n = "et/7" -> [kind |-> "dir", suffix |-> ""]
          [] n = "et/7/etmain" -> [kind |-> "dir", suffix |-> ""]
          [] n = "et/7/legacy" -> [kind |-> "dir", suffix |-> ""]
          [] n = "et/7/etl_start.sh" -> [kind |-> "file", suffix |-> ".sh"]
          [] n = "et/7/etlded.x86_64" -> [kind |-> "file", suffix |-> ".x86_64"]
          [] n = "et/7/legacy/tool.sh" -> [kind |-> "file", suffix |-> ".sh"]
          [] OTHER -> [kind |-> "file", suffix |-> ".cfg"] ]

\* modes before the call: 0755 / 02775 directories, 0644 / 0755 files
InitialModes(kind) == IF kind = "dir" THEN {493, 1533} ELSE {420, 493}

InitPerm ==
    /\ \E modes \in [DOMAIN Shape -> {420, 493, 1533}] :
          /\ \A n \in DOMAIN Shape : modes[n] \in InitialModes(Shape[n].kind)
          /\ tree = [ n \in DOMAIN Shape |->
                        [kind |-> Shape[n].kind, suffix |-> Shape[n].suffix,
                         mode |-> modes[n]] ]
    /\ perm_result = "none"

\* PermissionsManager.set_file_permissions(install_dir)
SetFilePermissionsCall ==
    /\ perm_result = "none"
    /\ \E outcome \in PermOutcomes :
          /\ tree' = SetFilePermissions(tree, outcome)
          /\ perm_result' = IF outcome = "ok" THEN "True" ELSE "False"
    /\ UNCHANGED <<cfgVars, regVars, instVars, updVars, verVars, fwVars, grpVars, svcVars, envVars>>

NextPerm == SetFilePermissionsCall

InitSpecPerm == InitPerm /\ InitCfgIdle /\ InitRegIdle /\ InitInstIdle /\ InitUpdIdle /\ InitVerIdle /\ InitFwIdle /\ InitGrpIdle /\ InitSvcIdle /\ InitEnvIdle

SpecPerm == InitSpecPerm /\ [][NextPerm]_vars

\* C8: after set_file_permissions returned success, every directory of the
\* tree rooted at <install_dir>/et, the root included, has the group-write
\* and setgid bits, every regular file is group-writable, and every regular
\* file named *.sh or *.x86_64 has its execute bit.
C8_TreeNormalized ==
    perm_result = "True" =>
        \A n \in DOMAIN tree :
            /\ tree[n].kind = "dir" =>
                  GroupWritable(tree[n].mode) /\ SetGid(tree[n].mode)
            /\ tree[n].kind = "file" => GroupWritable(tree[n].mode)
            /\ (tree[n].kind = "file" /\ tree[n].suffix \in {".sh", ".x86_64"})
                  => OwnerExec(tree[n].mode)

----------------------------------------------------------------------------
(* Installer.install_server, one action per step                           *)

\* the two option values: bool as InstallWizard.run sets them from
\* Confirm.ask, str as ConfigManager.load_env_file leaves them
WizardFlag(b) == IF b THEN "True" ELSE "False"
LoadEnvFlag(b) == IF b THEN "'true'" ELSE "'false'"

\* Python truth value of config.get(<option>, True)
Truthy(v) == v # "False"

\* outcome of a step: "ok"; "ignored" (it failed and nobody looks at the
\* return value or exit status); "caught" (an exception caught inside the
\* callee); "raised" (an exception leaves install_server); "returned"
\* (install_server returns False)
CanFail == fails < MaxFailures

Outcome(o, allowed) == o \in allowed /\ (o # "ok" => CanFail)

Logged(step, o) ==
    /\ log' = Append(log, [step |-> step, outcome |-> o])
    /\ fails' = IF o = "ok" THEN fails ELSE fails + 1

Key == <<cur.installDir, cur.port>>

\* where install_server goes after configure_etl_services, after _setup_ftp
AfterFtp == IF Truthy(cur.configure_firewall) THEN "firewall" ELSE "permissions"
AfterServices == IF cur.ftpuser THEN "ftp" ELSE AfterFtp

\* install_server(config) is called
InstallServer ==
    /\ pc = "idle"
    /\ calls < MaxInstalls
    /\ \E d \in InstallDirs, q \in Ports, m \in BOOLEAN, f \in BOOLEAN,
          ftp \in BOOLEAN, fromEnv \in BOOLEAN :
          cur' = [port |-> q, installDir |-> d,
                  install_maps |-> IF fromEnv THEN LoadEnvFlag(m) ELSE WizardFlag(m),
                  configure_firewall |-> IF fromEnv THEN LoadEnvFlag(f) ELSE WizardFlag(f),
                  ftpuser |-> ftp,
                  fresh |-> (server_unit[q] = NoPath)]
    /\ pc' = "group"
    /\ result' = "none"
    /\ log' = <<>>
    /\ calls' = calls + 1
    /\ map_i' = 0
    /\ map_attempts' = <<>>
    /\ UNCHANGED <<fails, hostVars, cfgVars, regVars, permVars, updVars, verVars, fwVars, grpVars, svcVars, envVars>>

\* self.permissions.setup_etl_group(): the return value is dropped
SetupEtlGroup ==
    /\ pc = "group"
    /\ \E o \in {"ok", "ignored"} :
          /\ Outcome(o, {"ok", "ignored"})
          /\ Logged("group", o)
          /\ group_ok' = (group_ok \/ o = "ok")
    /\ pc' = "mkdirs"
    /\ UNCHANGED <<cur, result, calls, map_i, map_attempts, fs, server_unit, restart_unit,
                   timer_unit, enabled, active, fw_rules, artifact,
                   cfgVars, regVars, permVars, updVars, verVars, fwVars, grpVars, svcVars, envVars>>

\* os.makedirs(server_dir, exist_ok=True) and the two sub-directories
MakeDirs ==
    /\ pc = "mkdirs"
    /\ \E o \in {"ok", "raised"} :
          /\ Outcome(o, {"ok", "raised"})
          /\ Logged("mkdirs", o)
          /\ fs' = IF o = "ok" THEN [fs EXCEPT ![Key].exists = TRUE] ELSE fs
          /\ pc' = IF o = "ok" THEN "apt_update" ELSE "idle"
          /\ result' = IF o = "ok" THEN result ELSE "raised"
    /\ UNCHANGED <<cur, calls, map_i, map_attempts, server_unit, restart_unit, timer_unit,
                   enabled, active, fw_rules, group_ok, artifact,
                   cfgVars, regVars, permVars, updVars, verVars, fwVars, grpVars, svcVars, envVars>>

\* self.bash.run_command("apt update"): the exit status is dropped
AptUpdate ==
    /\ pc = "apt_update"
    /\ \E o \in {"ok", "ignored"} :
          /\ Outcome(o, {"ok", "ignored"})
          /\ Logged("apt_update", o)
    /\ pc' = "apt_install"
    /\ UNCHANGED <<cur, result, calls, map_i, map_attempts, hostVars, cfgVars, regVars, permVars, updVars, verVars, fwVars, grpVars, svcVars, envVars>>

\* self.bash.run_command("apt install -y unzip wget")
AptInstall ==
    /\ pc = "apt_install"
    /\ \E o \in {"ok", "ignored"} :
          /\ Outcome(o, {"ok", "ignored"})
          /\ Logged("apt_install", o)
    /\ pc' = "download"
    /\ UNCHANGED <<cur, result, calls, map_i, map_attempts, hostVars, cfgVars, regVars, permVars, updVars, verVars, fwVars, grpVars, svcVars, envVars>>

\* dm.download_version(config['version']): raise_for_status / I/O errors
\* are not caught
DownloadVersion ==
    /\ pc = "download"
    /\ \E o \in {"ok", "raised"} :
          /\ Outcome(o, {"ok", "raised"})
          /\ Logged("download", o)
          /\ artifact' = (artifact \/ o = "ok")
          /\ pc' = IF o = "ok" THEN "installer" ELSE "idle"
          /\ result' = IF o = "ok" THEN result ELSE "raised"
    /\ UNCHANGED <<cur, calls, map_i, map_attempts, fs, server_unit, restart_unit, timer_unit,
                   enabled, active, fw_rules, group_ok, cfgVars, regVars, permVars, updVars, verVars, fwVars, grpVars, svcVars, envVars>>

\* a faulty version that removes the instance directory when the vendor
\* installer failed
InstallerCleansUp(dir, o) ==
    IF o = "ok" THEN [dir EXCEPT !.installed = TRUE, !.cfg_port = "27960"]
    ELSE NoDir

\* lines 76-80: what <install_dir>/et/<port> holds after the vendor
\* installer ran; when it failed install_server removes nothing
InstallerLeaves(dir, o) ==
    IF o = "ok" THEN [dir EXCEPT !.installed = TRUE, !.cfg_port = "27960"]
    ELSE dir

\* the vendor installer: a non-zero exit code makes install_server return False
RunInstaller ==
    /\ pc = "installer"
    /\ \E o \in {"ok", "returned"} :
          /\ Outcome(o, {"ok", "returned"})
          /\ Logged("installer", o)
          /\ fs' = [fs EXCEPT ![Key] = InstallerLeaves(@, o)]
          /\ pc' = IF o = "ok" THEN "configure" ELSE "idle"
          /\ result' = IF o = "ok" THEN result ELSE "False"
    /\ UNCHANGED <<cur, calls, map_i, map_attempts, server_unit, restart_unit, timer_unit,
                   enabled, active, fw_rules, group_ok, artifact,
                   cfgVars, regVars, permVars, updVars, verVars, fwVars, grpVars, svcVars, envVars>>

\* self._configure_server(config, server_dir): re.error and I/O errors are
\* not caught
ConfigureStep ==
    /\ pc = "configure"
    /\ \E o \in {"ok", "raised"} :
          /\ Outcome(o, {"ok", "raised"})
          /\ Logged("configure", o)
          /\ fs' = IF o = "ok" /\ fs[Key].cfg_port # "none"
                   THEN [fs EXCEPT ![Key].cfg_port = ToString(cur.port)]
                   ELSE fs
          /\ pc' = IF o # "ok" THEN "idle"
                   ELSE IF Truthy(cur.install_maps) THEN "map" ELSE "start_script"
          /\ result' = IF o = "ok" THEN result ELSE "raised"
    /\ map_i' = 1
    /\ UNCHANGED map_attempts
    /\ UNCHANGED <<cur, calls, server_unit, restart_unit, timer_unit,
                   enabled, active, fw_rules, group_ok, artifact,
                   cfgVars, regVars, permVars, updVars, verVars, fwVars, grpVars, svcVars, envVars>>

\* a faulty loop that ends at the first map that fails
AfterMapBreak(o) ==
    IF o # "ok" \/ map_i = NumMaps THEN "start_script" ELSE "map"

\* lines 301-314: the for loop goes to the next entry of maps_list whatever
\* the iteration did; after the last one _install_maps returns
AfterMap(o) == IF map_i = NumMaps THEN "start_script" ELSE "map"

\* one iteration of the loop of _install_maps: a wget that exits non-zero
\* ("ignored", line 309) or a command that raises ("caught", line 311)
\* prints a warning
DownloadMap ==
    /\ pc = "map"
    /\ \E o \in {"ok", "ignored", "caught"} :
          /\ Outcome(o, {"ok", "ignored", "caught"})
          /\ Logged("map", o)
          /\ fs' = IF o = "ok"
                   THEN [fs EXCEPT ![Key].maps = @ \cup {MapsList[map_i]}]
                   ELSE fs
          /\ map_attempts' = Append(map_attempts,
                                    [map_file |-> MapsList[map_i], warning |-> o # "ok"])
          /\ pc' = AfterMap(o)
    /\ map_i' = map_i + 1
    /\ UNCHANGED <<cur, result, calls, server_unit, restart_unit, timer_unit,
                   enabled, active, fw_rules, group_ok, artifact,
                   cfgVars, regVars, permVars, updVars, verVars, fwVars, grpVars, svcVars, envVars>>

\* self._create_start_script(server_dir, port): open() errors are not caught
CreateStartScript ==
    /\ pc = "start_script"
    /\ \E o \in {"ok", "raised"} :
          /\ Outcome(o, {"ok", "raised"})
          /\ Logged("start_script", o)
          /\ fs' = IF o = "ok"
                   THEN [fs EXCEPT ![Key].script_port = ToString(cur.port)]
                   ELSE fs
          /\ pc' = IF o = "ok" THEN "unit_server" ELSE "idle"
          /\ result' = IF o = "ok" THEN result ELSE "raised"
    /\ UNCHANGED <<cur, calls, map_i, map_attempts, server_unit, restart_unit, timer_unit,
                   enabled, active, fw_rules, group_ok, artifact,
                   cfgVars, regVars, permVars, updVars, verVars, fwVars, grpVars, svcVars, envVars>>

\* configure_etl_services, line 48: the server unit is written; an
\* exception is caught at line 66 and the rest of the function is skipped
WriteServerUnit ==
    /\ pc = "unit_server"
    /\ \E o \in {"ok", "caught"} :
          /\ Outcome(o, {"ok", "caught"})
          /\ Logged("unit_server", o)
          /\ server_unit' = IF o = "ok"
                            THEN [server_unit EXCEPT ![cur.port] = ServerDir(cur.installDir, cur.port)]
                            ELSE server_unit
          /\ pc' = IF o = "ok" THEN "unit_restart" ELSE AfterServices
    /\ UNCHANGED <<cur, result, calls, map_i, map_attempts, fs, restart_unit, timer_unit,
                   enabled, active, fw_rules, group_ok, artifact,
                   cfgVars, regVars, permVars, updVars, verVars, fwVars, grpVars, svcVars, envVars>>

\* configure_etl_services, line 51: the restart unit is written
WriteRestartUnit ==
    /\ pc = "unit_restart"
    /\ \E o \in {"ok", "caught"} :
          /\ Outcome(o, {"ok", "caught"})
          /\ Logged("unit_restart", o)
          /\ restart_unit' = IF o = "ok"
                             THEN [restart_unit EXCEPT ![cur.port] = cur.port]
                             ELSE restart_unit
          /\ pc' = IF o = "ok" THEN "unit_timer" ELSE AfterServices
    /\ UNCHANGED <<cur, result, calls, map_i, map_attempts, fs, server_unit, timer_unit,
                   enabled, active, fw_rules, group_ok, artifact,
                   cfgVars, regVars, permVars, updVars, verVars, fwVars, grpVars, svcVars, envVars>>

\* configure_etl_services, line 54: the timer unit is written
WriteTimerUnit ==
    /\ pc = "unit_timer"
    /\ \E o \in {"ok", "caught"} :
          /\ Outcome(o, {"ok", "caught"})
          /\ Logged("unit_timer", o)
          /\ timer_unit' = IF o = "ok"
                           THEN [timer_unit EXCEPT ![cur.port] = cur.port]
                           ELSE timer_unit
          /\ pc' = IF o = "ok" THEN "enable" ELSE AfterServices
    /\ UNCHANGED <<cur, result, calls, map_i, map_attempts, fs, server_unit, restart_unit,
                   enabled, active, fw_rules, group_ok, artifact,
                   cfgVars, regVars, permVars, updVars, verVars, fwVars, grpVars, svcVars, envVars>>

\* configure_etl_services, lines 58-62: daemon-reload and the two enable
\* commands; run_command is called with check=False, a non-zero exit status
\* is not looked at
EnableUnits ==
    /\ pc = "enable"
    /\ \E o \in {"ok", "ignored"} :
          /\ Outcome(o, {"ok", "ignored"})
          /\ Logged("enable", o)
          /\ enabled' = IF o = "ok" THEN enabled \cup {cur.port} ELSE enabled
    /\ pc' = AfterServices
    /\ UNCHANGED <<cur, result, calls, map_i, map_attempts, fs, server_unit, restart_unit,
                   timer_unit, active, fw_rules, group_ok, artifact,
                   cfgVars, regVars, permVars, updVars, verVars, fwVars, grpVars, svcVars, envVars>>

\* self._setup_ftp(config['ftpuser'], install_dir): the writes of
\* /etc/vsftpd.conf and /etc/ssh/sshd_config are not guarded
SetupFtp ==
    /\ pc = "ftp"
    /\ \E o \in {"ok", "raised"} :
          /\ Outcome(o, {"ok", "raised"})
          /\ Logged("ftp", o)
          /\ pc' = IF o = "ok" THEN AfterFtp ELSE "idle"
          /\ result' = IF o = "ok" THEN result ELSE "raised"
    /\ UNCHANGED <<cur, calls, map_i, map_attempts, hostVars, cfgVars, regVars, permVars, updVars, verVars, fwVars, grpVars, svcVars, envVars>>

\* self.firewall.configure_for_server(port): ufw allow <port>/udp
ConfigureForServer ==
    /\ pc = "firewall"
    /\ \E o \in {"ok", "ignored"} :
          /\ Outcome(o, {"ok", "ignored"})
          /\ Logged("firewall", o)
          /\ fw_rules' = IF o = "ok" THEN fw_rules \cup {cur.port} ELSE fw_rules
    /\ pc' = "permissions"
    /\ UNCHANGED <<cur, result, calls, map_i, map_attempts, fs, server_unit, restart_unit,
                   timer_unit, enabled, active, group_ok, artifact,
                   cfgVars, regVars, permVars, updVars, verVars, fwVars, grpVars, svcVars, envVars>>

\* self.permissions.set_file_permissions(install_dir): returns False on an
\* exception, the return value is dropped
SetPermissionsStep ==
    /\ pc = "permissions"
    /\ \E o \in {"ok", "ignored"} :
          /\ Outcome(o, {"ok", "ignored"})
          /\ Logged("permissions", o)
    /\ pc' = "start"
    /\ UNCHANGED <<cur, result, calls, map_i, map_attempts, hostVars, cfgVars, regVars, permVars, updVars, verVars, fwVars, grpVars, svcVars, envVars>>

\* systemd can start etlserver-<port> when the unit file exists and its
\* ExecStart names a start script that exists
Startable(q) ==
    /\ server_unit[q] # NoPath
    /\ \E k \in InstallDirs \X Ports :
          /\ ServerDir(k[1], k[2]) = server_unit[q]
          /\ fs[k].script_port # "none"

\* self.services.start_server(port), then the completion panel and
\* return True (lines 126-143)
StartServer ==
    /\ pc = "start"
    /\ \E o \in {"ok", "ignored"} :
          /\ IF Startable(cur.port) THEN Outcome(o, {"ok", "ignored"}) ELSE o = "ignored"
          /\ Logged("start", o)
          /\ active' = IF o = "ok" THEN [active EXCEPT ![cur.port] = TRUE] ELSE active
    /\ pc' = "idle"
    /\ result' = "True"
    /\ UNCHANGED <<cur, calls, map_i, map_attempts, fs, server_unit, restart_unit,
                   timer_unit, enabled, fw_rules, group_ok, artifact,
                   cfgVars, regVars, permVars, updVars, verVars, fwVars, grpVars, svcVars, envVars>>

Next ==
    \/ InstallServer
    \/ SetupEtlGroup
    \/ MakeDirs
    \/ AptUpdate
    \/ AptInstall
    \/ DownloadVersion
    \/ RunInstaller
    \/ ConfigureStep
    \/ DownloadMap
    \/ CreateStartScript
    \/ WriteServerUnit
    \/ WriteRestartUnit
    \/ WriteTimerUnit
    \/ EnableUnits
    \/ SetupFtp
    \/ ConfigureForServer
    \/ SetPermissionsStep
    \/ StartServer

Init == InitCfgIdle /\ InitRegIdle /\ InitPermIdle /\ InitInstIdle /\ InitUpdIdle /\ InitVerIdle /\ InitFwIdle /\ InitGrpIdle /\ InitSvcIdle /\ InitEnvIdle

Spec == Init /\ [][Next]_vars

\* one install_server call on a host on which the tool has not run yet
InitLastCall ==
    /\ pc = "idle"
    /\ cur = NoCall
    /\ result = "none"
    /\ log = <<>>
    /\ fails = 0
    /\ calls = MaxInstalls - 1
    /\ map_i = 0
    /\ map_attempts = <<>>
    /\ InitHost

InitSpecCall == InitLastCall /\ InitCfgIdle /\ InitRegIdle /\ InitPermIdle /\ InitUpdIdle /\ InitVerIdle /\ InitFwIdle /\ InitGrpIdle /\ InitSvcIdle /\ InitEnvIdle

SpecCall == InitSpecCall /\ [][Next]_vars

----------------------------------------------------------------------------
(* Claims about install_server                                              *)

\* /etc/systemd/system as get_installed_servers sees it: one file
\* etlserver-<port>.service for every server unit written so far
InstalledUnits ==
    LET qs == { q \in Ports : server_unit[q] # NoPath }
    IN  [ n \in { PortName(q) : q \in qs } |->
            [kind |-> "unit",
             server_dir |-> server_unit[CHOOSE q \in qs : PortName(q) = n]] ]

\* the ports of the records a get_installed_servers call returns now
ListedPorts ==
    LET order == CHOOSE o \in Orders(DOMAIN InstalledUnits) : TRUE
        recs  == ScanAll(order, InstalledUnits,
                         [n \in DOMAIN InstalledUnits |-> NoFile], "Unknown")
    IN  { recs[i].port : i \in 1..Len(recs) }

\* the steps of the last call that did not succeed
Failed(steps) ==
    \E i \in 1..Len(log) : log[i].step \in steps /\ log[i].outcome # "ok"

Returned == pc = "idle" /\ result # "none"

\* C1: a call for a port without a service unit either returns success with
\* the service active, the port listed by get_installed_servers and no
\* failed registration, permission or start step, or reports failure with
\* the service not started.
C1_InstallOutcome ==
    (Returned /\ cur.fresh) =>
        \/ /\ result = "True"
           /\ active[cur.port]
           /\ cur.port \in ListedPorts
           /\ ~Failed({"unit_server", "unit_restart", "unit_timer", "enable",
                       "permissions", "start"})
        \/ /\ result \in {"False", "raised"}
           /\ ~active[cur.port]

\* C5: after a call that returned success, the server unit of its port
\* names the directory of that call and the restart unit and the timer
\* name its port (one unit file per port by construction of the path).
C5_UnitsFollowLastInstall ==
    (Returned /\ result = "True") =>
        /\ server_unit[cur.port] = ServerDir(cur.installDir, cur.port)
        /\ restart_unit[cur.port] = cur.port
        /\ timer_unit[cur.port] = cur.port

\* the option is true: the bool True or the text true of a file
IsTrue(v) == v \in {"True", "'true'"}

C10_FailureAborts ==
    \A i \in 1..Len(log) :
        (log[i].outcome # "ok" /\ log[i].step # "map") =>
            /\ i = Len(log)
            /\ pc = "idle"
            /\ result \in {"False", "raised"}

----------------------------------------------------------------------------
(* Installer.update_server, one action per step (specification SpecUpd)    *)

\* content tokens: what the operator of the server put there, what a
\* release ships
UserContent == {"user"}
ShippedContent == {"shipped"}

\* a directory with at least one entry (os.rename onto it fails, ENOTEMPTY)
NonEmpty(d) ==
    /\ d.exists
    /\ \/ \E f \in Range(ConfigFiles) : d.files[f] # NoEntry
       \/ d.pk3 # {}
       \/ d.legacy # {}
       \/ d.script

\* the instance directories update_server can be called on: pk3 lists the
\* *.pk3 entries of etmain, legacy the files of legacy/ next to configs and
\* mapscripts
InstanceTrees ==
    { [exists |-> TRUE, files |-> fl, pk3 |-> m, legacy |-> l, script |-> TRUE] :
        fl \in [Range(ConfigFiles) -> {NoEntry, UserContent}],
        m \in { {"pak0.pk3"}, {"pak0.pk3", "custom.pk3"} },
        l \in { {"legacy.pk3"}, {"legacy.pk3", "custom_mod.pk3"} } }

\* what a vendor installer that exits 0 leaves in --target-directory
ReleaseTrees ==
    { [exists |-> TRUE, files |-> fl, pk3 |-> {"pak0.pk3"},
       legacy |-> {"legacy.pk3"}, script |-> FALSE] :
        fl \in [Range(ConfigFiles) -> {NoEntry, ShippedContent}] }

\* what a vendor installer that exits non-zero leaves there: nothing, the
\* created directory, or a part of the release
FailedInstallerTrees ==
    { Absent, EmptyDir,
      [EmptyDir EXCEPT !.pk3 = {"pak0.pk3"}],
      [EmptyDir EXCEPT !.files["etl_server.cfg"] = ShippedContent] }

UpdCanFail == update_fails < MaxFailures

UpdOutcome(o) == o # "ok" => UpdCanFail

UpdCount(o) == update_fails' = IF o = "ok" THEN update_fails ELSE update_fails + 1

\* the exception leaves update_server
UpdRaise ==
    /\ upc' = "idle"
    /\ update_result' = "raised"

InitUpd ==
    /\ upc = "idle"
    /\ server_dir \in InstanceTrees
    /\ temp_dir = Absent
    /\ backup_dir = Absent
    /\ before = Absent
    /\ shipped = Absent
    /\ returncode = -1
    /\ update_result = "none"
    /\ updates = 0
    /\ update_fails = 0
    /\ prev_returncode = -1
    /\ prev_before = Absent
    /\ mpc = "menu"
    /\ is_running = FALSE
    /\ running \in BOOLEAN
    /\ running_at_call = FALSE
    /\ systemctl_log = {}

\* a faulty update_server that starts the service when it is done
StartsWhenDone(step) == IF step = "finish" THEN {"start"} ELSE {}

\* the systemctl start / stop / restart commands update_server issues at a
\* step: lines 145-249 contain none
UpdateServerCommands(step) == {}

\* the state of the service after the commands cmds
Systemctl(r, cmds) ==
    IF "start" \in cmds \/ "restart" \in cmds THEN TRUE
    ELSE IF "stop" \in cmds THEN FALSE
    ELSE r

\* what a step of update_server does to the service and to its caller
InUpdate(step) ==
    /\ running' = Systemctl(running, UpdateServerCommands(step))
    /\ systemctl_log' = systemctl_log \cup
          { [by |-> "update_server", cmd |-> c] : c \in UpdateServerCommands(step) }
    /\ UNCHANGED <<mpc, is_running, running_at_call, prev_returncode, prev_before>>

\* update_server(server_info, version_info) is called; os.makedirs(backup_dir)
UpdateServer ==
    /\ upc = "idle"
    /\ mpc = "update"
    /\ mpc' = "called"
    /\ running_at_call' = running
    /\ prev_returncode' = returncode
    /\ prev_before' = before
    /\ running' = Systemctl(running, UpdateServerCommands("entry"))
    /\ systemctl_log' = systemctl_log \cup
          { [by |-> "update_server", cmd |-> c] : c \in UpdateServerCommands("entry") }
    /\ UNCHANGED is_running
    /\ updates' = updates + 1
    /\ before' = server_dir
    /\ backup_dir' = EmptyDir
    /\ shipped' = Absent
    /\ returncode' = -1
    /\ update_result' = "none"
    /\ upc' = "backup"
    /\ UNCHANGED <<server_dir, temp_dir, update_fails>>
    /\ UNCHANGED <<cfgVars, regVars, permVars, instVars, verVars, fwVars, grpVars, svcVars, envVars>>

\* lines 167-174: copy each of the three that exists into backup_dir
BackupFile(src, f) == IF src.files[f] # NoEntry THEN src.files[f] ELSE NoEntry

BackupConfig ==
    /\ upc = "backup"
    /\ \E o \in {"ok", "raised"} :
          /\ UpdOutcome(o)
          /\ UpdCount(o)
          /\ IF o = "ok"
             THEN /\ backup_dir' = [backup_dir EXCEPT !.files =
                                      [f \in Range(ConfigFiles) |-> BackupFile(server_dir, f)]]
                  /\ upc' = "download"
                  /\ UNCHANGED update_result
             ELSE /\ UpdRaise
                  /\ UNCHANGED backup_dir
    /\ UNCHANGED <<server_dir, temp_dir, before, shipped, returncode, updates>>
    /\ UNCHANGED <<cfgVars, regVars, permVars, instVars, verVars, fwVars, grpVars, svcVars, envVars>>
    /\ InUpdate("backup")

\* a faulty order: the tree is renamed aside before the download
DownloadAfterRename ==
    /\ upc = "download"
    /\ \E o \in {"ok", "raised"} :
          /\ UpdOutcome(o)
          /\ UpdCount(o)
          /\ IF o = "ok"
             THEN upc' = "rename" /\ UNCHANGED <<update_result, server_dir, temp_dir>>
             ELSE /\ UpdRaise
                  /\ temp_dir' = server_dir
                  /\ server_dir' = Absent
    /\ UNCHANGED <<backup_dir, before, shipped, returncode, updates>>
    /\ UNCHANGED <<cfgVars, regVars, permVars, instVars, verVars, fwVars, grpVars, svcVars, envVars>>
    /\ InUpdate("download")

\* dm.download_version(version_info), lines 183-185: raise_for_status and
\* I/O errors are not caught
UpdDownloadVersion ==
    /\ upc = "download"
    /\ \E o \in {"ok", "raised"} :
          /\ UpdOutcome(o)
          /\ UpdCount(o)
          /\ IF o = "ok"
             THEN upc' = "rename" /\ UNCHANGED update_result
             ELSE UpdRaise
    /\ UNCHANGED <<server_dir, temp_dir, backup_dir, before, shipped,
                   returncode, updates>>
    /\ UNCHANGED <<cfgVars, regVars, permVars, instVars, verVars, fwVars, grpVars, svcVars, envVars>>
    /\ InUpdate("download")

\* os.rename(src, dst) of directories: fails when src does not exist or
\* dst holds an entry
RenameFails(src, dst) == ~src.exists \/ NonEmpty(dst)

\* a faulty step: the current tree is removed, not moved aside
RemoveCurrent ==
    /\ upc = "rename"
    /\ server_dir' = Absent
    /\ upc' = "installer"
    /\ UNCHANGED <<temp_dir, update_result, backup_dir, before, shipped,
                   returncode, updates, update_fails>>
    /\ UNCHANGED <<cfgVars, regVars, permVars, instVars, verVars, fwVars, grpVars, svcVars, envVars>>
    /\ InUpdate("rename")

\* os.rename(server_dir, temp_dir), line 189
RenameToOld ==
    /\ upc = "rename"
    /\ IF RenameFails(server_dir, temp_dir)
       THEN /\ UpdRaise
            /\ UNCHANGED <<server_dir, temp_dir>>
       ELSE /\ temp_dir' = server_dir
            /\ server_dir' = Absent
            /\ upc' = "installer"
            /\ UNCHANGED update_result
    /\ UNCHANGED <<backup_dir, before, shipped, returncode, updates, update_fails>>
    /\ UNCHANGED <<cfgVars, regVars, permVars, instVars, verVars, fwVars, grpVars, svcVars, envVars>>
    /\ InUpdate("rename")

\* lines 193-199: the vendor installer; on a non-zero exit status
\* os.rename(temp_dir, server_dir) and return False
UpdRunInstaller ==
    /\ upc = "installer"
    /\ \/ \E rel \in ReleaseTrees :
             /\ returncode' = 0
             /\ shipped' = rel
             /\ server_dir' = rel
             /\ upc' = "restore"
             /\ UNCHANGED <<temp_dir, update_result, update_fails>>
       \/ \E left \in FailedInstallerTrees :
             /\ UpdCanFail
             /\ update_fails' = update_fails + 1
             /\ returncode' = 1
             /\ shipped' = left
             /\ IF RenameFails(temp_dir, left)
                THEN /\ server_dir' = left
                     /\ UpdRaise
                     /\ UNCHANGED temp_dir
                ELSE /\ server_dir' = temp_dir
                     /\ temp_dir' = Absent
                     /\ upc' = "idle"
                     /\ update_result' = "False"
    /\ UNCHANGED <<backup_dir, before, updates>>
    /\ UNCHANGED <<cfgVars, regVars, permVars, instVars, verVars, fwVars, grpVars, svcVars, envVars>>
    /\ InUpdate("installer")

\* a faulty restore: keeps the file the release shipped
RestoreKeepShipped(dst, src, f) ==
    IF src.files[f] # NoEntry /\ dst.files[f] = NoEntry THEN src.files[f]
    ELSE dst.files[f]

\* lines 204-212, one file: if it is in the backup it replaces what the
\* release put there (rmtree + copytree for a directory, copy2 for the file)
RestoreFile(dst, src, f) ==
    IF src.files[f] # NoEntry THEN src.files[f] ELSE dst.files[f]

\* lines 203-212: restore the configs from the backup
RestoreConfig ==
    /\ upc = "restore"
    /\ \E o \in {"ok", "raised"} :
          /\ UpdOutcome(o)
          /\ UpdCount(o)
          /\ IF o = "ok"
             THEN /\ server_dir' = [server_dir EXCEPT !.files =
                        [f \in Range(ConfigFiles) |-> RestoreFile(server_dir, backup_dir, f)]]
                  /\ upc' = "maps"
                  /\ UNCHANGED update_result
             ELSE /\ UpdRaise
                  /\ UNCHANGED server_dir
    /\ UNCHANGED <<temp_dir, backup_dir, before, shipped, returncode, updates>>
    /\ UNCHANGED <<cfgVars, regVars, permVars, instVars, verVars, fwVars, grpVars, svcVars, envVars>>
    /\ InUpdate("restore")

\* lines 215-220: copy the *.pk3 of the old etmain the new one lacks
CopyCustomMaps ==
    /\ upc = "maps"
    /\ server_dir' = [server_dir EXCEPT !.pk3 = @ \cup (temp_dir.pk3 \ @)]
    /\ upc' = "script"
    /\ UNCHANGED <<temp_dir, backup_dir, before, shipped, returncode,
                   update_result, updates, update_fails>>
    /\ UNCHANGED <<cfgVars, regVars, permVars, instVars, verVars, fwVars, grpVars, svcVars, envVars>>
    /\ InUpdate("maps")

\* self._create_start_script(server_dir, port), line 223
UpdCreateStartScript ==
    /\ upc = "script"
    /\ \E o \in {"ok", "raised"} :
          /\ UpdOutcome(o)
          /\ UpdCount(o)
          /\ IF o = "ok"
             THEN /\ server_dir' = [server_dir EXCEPT !.script = TRUE]
                  /\ upc' = "cleanup"
                  /\ UNCHANGED update_result
             ELSE /\ UpdRaise
                  /\ UNCHANGED server_dir
    /\ UNCHANGED <<temp_dir, backup_dir, before, shipped, returncode, updates>>
    /\ UNCHANGED <<cfgVars, regVars, permVars, instVars, verVars, fwVars, grpVars, svcVars, envVars>>
    /\ InUpdate("script")

\* shutil.rmtree(temp_dir), line 226
CleanUpOld ==
    /\ upc = "cleanup"
    /\ \E o \in {"ok", "raised"} :
          /\ UpdOutcome(o)
          /\ UpdCount(o)
          /\ IF o = "ok"
             THEN /\ temp_dir' = Absent
                  /\ upc' = "permissions"
                  /\ UNCHANGED update_result
             ELSE /\ UpdRaise
                  /\ UNCHANGED temp_dir
    /\ UNCHANGED <<server_dir, backup_dir, before, shipped, returncode, updates>>
    /\ UNCHANGED <<cfgVars, regVars, permVars, instVars, verVars, fwVars, grpVars, svcVars, envVars>>
    /\ InUpdate("cleanup")

\* lines 232-249: set_file_permissions (return value dropped), the version
\* of server_info, the completion panel, return True
UpdFinish ==
    /\ upc = "permissions"
    /\ \E o \in {"ok", "ignored"} :
          /\ UpdOutcome(o)
          /\ UpdCount(o)
    /\ upc' = "idle"
    /\ update_result' = "True"
    /\ UNCHANGED <<server_dir, temp_dir, backup_dir, before, shipped,
                   returncode, updates>>
    /\ UNCHANGED <<cfgVars, regVars, permVars, instVars, verVars, fwVars, grpVars, svcVars, envVars>>
    /\ InUpdate("finish")

\* _perform_server_update, lines 247-255: the server is stopped when it
\* runs and the user agrees; stop_server may leave it running
PerformServerUpdate ==
    /\ mpc = "menu"
    /\ upc = "idle"
    /\ updates < MaxUpdates
    /\ is_running' = running
    /\ IF running
       THEN \E stop \in BOOLEAN :
               IF stop
               THEN /\ systemctl_log' = systemctl_log \cup {[by |-> "menu", cmd |-> "stop"]}
                    /\ running' \in BOOLEAN
                    /\ mpc' = "update"
               ELSE UNCHANGED <<systemctl_log, running, mpc>>
       ELSE /\ mpc' = "update"
            /\ UNCHANGED <<systemctl_log, running>>
    /\ UNCHANGED <<upc, server_dir, temp_dir, backup_dir, before, shipped,
                   returncode, update_result, updates, update_fails,
                   prev_returncode, prev_before, running_at_call>>
    /\ UNCHANGED <<cfgVars, regVars, permVars, instVars, verVars, fwVars, grpVars, svcVars, envVars>>

\* _perform_server_update, lines 259-266: after a successful update the
\* server is started when it ran before and the user agrees
AfterUpdate ==
    /\ mpc = "called"
    /\ upc = "idle"
    /\ mpc' = "menu"
    /\ IF update_result = "True" /\ is_running
       THEN \E start \in BOOLEAN :
               IF start
               THEN /\ systemctl_log' = systemctl_log \cup {[by |-> "menu", cmd |-> "start"]}
                    /\ running' \in BOOLEAN
               ELSE UNCHANGED <<systemctl_log, running>>
       ELSE UNCHANGED <<systemctl_log, running>>
    /\ UNCHANGED <<upc, server_dir, temp_dir, backup_dir, before, shipped,
                   returncode, update_result, updates, update_fails,
                   prev_returncode, prev_before, is_running, running_at_call>>
    /\ UNCHANGED <<cfgVars, regVars, permVars, instVars, verVars, fwVars, grpVars, svcVars, envVars>>

NextUpd ==
    \/ PerformServerUpdate
    \/ AfterUpdate
    \/ UpdateServer
    \/ BackupConfig
    \/ UpdDownloadVersion
    \/ RenameToOld
    \/ UpdRunInstaller
    \/ RestoreConfig
    \/ CopyCustomMaps
    \/ UpdCreateStartScript
    \/ CleanUpOld
    \/ UpdFinish

InitSpecUpd == InitUpd /\ InitCfgIdle /\ InitRegIdle /\ InitPermIdle /\ InitInstIdle /\ InitVerIdle /\ InitFwIdle /\ InitGrpIdle /\ InitSvcIdle /\ InitEnvIdle

SpecUpd == InitSpecUpd /\ [][NextUpd]_vars

----------------------------------------------------------------------------
(* Claims about update_server (SpecUpd)                                    *)

UpdReturned == upc = "idle" /\ update_result # "none"

\* C2: when the vendor installer exited non-zero, update_server returns
\* False, the instance directory is what it was before the call and no
\* _old directory remains, whatever the installer left at the path.
C2_RollbackRestores ==
    (UpdReturned /\ returncode = 1) =>
        /\ update_result = "False"
        /\ server_dir = before
        /\ ~temp_dir.exists

\* C3 as stated: after a successful update each of etl_server.cfg, configs
\* and mapscripts is exactly what it was before the update, so that no
\* version shipped by the release survives.
C3_ConfigExactlyAsBefore ==
    (UpdReturned /\ update_result = "True") =>
        \A f \in Range(ConfigFiles) : server_dir.files[f] = before.files[f]

\* C3: after a successful update each of etl_server.cfg, configs and
\* mapscripts that existed before the update has exactly the content it had
\* before the update.
C3_ConfigPreserved ==
    (UpdReturned /\ update_result = "True") =>
        \A f \in Range(ConfigFiles) :
            before.files[f] # NoEntry => server_dir.files[f] = before.files[f]

\* a successful update of an instance with its own etl_server.cfg and
\* configs, to a release that ships both
C3_Witness ==
    /\ UpdReturned
    /\ update_result = "True"
    /\ \A f \in {"etl_server.cfg", "configs"} :
          /\ before.files[f] = UserContent
          /\ shipped.files[f] = ShippedContent
          /\ server_dir.files[f] = UserContent

----------------------------------------------------------------------------
(* Claims about configure_etl_services inside install_server (Spec)        *)

ServiceSteps == {"unit_server", "unit_restart", "unit_timer", "enable"}

\* what configure_etl_services returned in the current call, "none" while
\* it has not returned: False from the except clause (line 68), True at
\* line 65 whatever the exit status of the systemctl commands
ConfigureEtlServicesResult ==
    IF \E i \in 1..Len(log) :
          log[i].step \in ServiceSteps \ {"enable"} /\ log[i].outcome = "caught"
    THEN "False"
    ELSE IF \E i \in 1..Len(log) : log[i].step = "enable" THEN "True"
    ELSE "none"

\* C11: a failed unit-file write, reload or enable command makes
\* configure_etl_services report failure, is the last step of the call and
\* makes install_server report failure.
C11_ServiceFailureFatal ==
    \A i \in 1..Len(log) :
        (log[i].step \in ServiceSteps /\ log[i].outcome # "ok") =>
            /\ ConfigureEtlServicesResult = "False"
            /\ i = Len(log)
            /\ pc = "idle"
            /\ result \in {"False", "raised"}

----------------------------------------------------------------------------
(* DownloadManager.get_available_versions (specification SpecVer)          *)

\* sequences over S of length 0..n
SeqsUpTo(n, S) == UNION { [1..k -> S] : k \in 0..n }

\* a link of the download page: whether its text names a Linux 64-bit .sh
\* file, and the version its text carries ("none": no v<d>.<d>.<d>)
StableLinks == [linux64sh : BOOLEAN, version : {"none", "2.83.1"}]

\* a link of the workflow-files page whose href matches lnxx8664/*.sh: the
\* version its text carries ("none": no etlegacy-v<version>)
DevLinks == [version : {"none", "2.83.1-5-gabc"}]

\* _get_stable_version on a fetched page: the first matching link, or None
RECURSIVE StableFrom(_, _)
StableFrom(links, i) ==
    IF i > Len(links) THEN <<>>
    ELSE IF links[i].linux64sh
         THEN << [name |-> "Stable", url |-> i, is_stable |-> TRUE,
                  version |-> IF links[i].version = "none" THEN "Unknown"
                              ELSE links[i].version] >>
         ELSE StableFrom(links, i + 1)

\* _get_dev_versions on a fetched page: one entry per link whose text
\* carries a version, in page order
RECURSIVE DevFrom(_, _)
DevFrom(links, i) ==
    IF i > Len(links) THEN <<>>
    ELSE (IF links[i].version # "none"
          THEN << [name |-> "Development", url |-> i, is_stable |-> FALSE,
                   version |-> links[i].version] >>
          ELSE <<>>) \o DevFrom(links, i + 1)

\* a variant without the two try blocks: a failing source fails the listing
ListWithoutGuards(st, dv) ==
    IF ~st.ok \/ ~dv.ok THEN [raised |-> TRUE, called |-> TRUE, list |-> <<>>]
    ELSE [raised |-> FALSE, called |-> TRUE,
          list |-> StableFrom(st.links, 1) \o DevFrom(dv.links, 1)]

\* get_available_versions: each source inside its own try / except Exception
AvailableVersions(st, dv) ==
    [raised |-> FALSE, called |-> TRUE,
     list |-> (IF st.ok THEN StableFrom(st.links, 1) ELSE <<>>)
              \o (IF dv.ok THEN DevFrom(dv.links, 1) ELSE <<>>)]

\* the warnings get_available_versions prints
VersionWarnings(st, dv) ==
    (IF st.ok THEN {} ELSE {"stable"}) \cup (IF dv.ok THEN {} ELSE {"development"})

InitVer ==
    /\ stable_src \in {Unreachable}
          \cup { [ok |-> TRUE, links |-> l] : l \in SeqsUpTo(MaxStableLinks, StableLinks) }
    /\ dev_src \in {Unreachable}
          \cup { [ok |-> TRUE, links |-> l] : l \in SeqsUpTo(MaxDevLinks, DevLinks) }
    /\ versions = NotListed
    /\ ver_warnings = {}
    /\ wizard_step = "none"

\* DownloadManager.get_available_versions()
GetAvailableVersions ==
    /\ ~versions.called
    /\ versions' = AvailableVersions(stable_src, dev_src)
    /\ ver_warnings' = VersionWarnings(stable_src, dev_src)
    /\ UNCHANGED <<stable_src, dev_src, wizard_step>>
    /\ UNCHANGED <<cfgVars, regVars, permVars, instVars, updVars, fwVars, grpVars, svcVars, envVars>>

\* InstallWizard.run, lines 116-137: list the versions, return None when
\* the list is empty or the listing raised, else let the user choose
WizardVersionStep ==
    /\ wizard_step = "none"
    /\ LET r == AvailableVersions(stable_src, dev_src)
       IN  /\ versions' = r
           /\ ver_warnings' = VersionWarnings(stable_src, dev_src)
           /\ wizard_step' = IF r.raised \/ Len(r.list) = 0 THEN "None" ELSE "chosen"
    /\ UNCHANGED <<stable_src, dev_src>>
    /\ UNCHANGED <<cfgVars, regVars, permVars, instVars, updVars, fwVars, grpVars, svcVars, envVars>>

NextVer == GetAvailableVersions \/ WizardVersionStep

InitSpecVer == InitVer /\ InitCfgIdle /\ InitRegIdle /\ InitPermIdle /\ InitInstIdle /\ InitUpdIdle /\ InitFwIdle /\ InitGrpIdle /\ InitSvcIdle /\ InitEnvIdle

SpecVer == InitSpecVer /\ [][NextVer]_vars

\* C12: get_available_versions never raises; with the stable source failing
\* it returns the development releases, with the development source failing
\* the stable release; the wizard returns no config exactly when the list
\* is empty.
C12_ListingTolerant ==
    versions.called =>
        /\ ~versions.raised
        /\ ~stable_src.ok => versions.list =
              (IF dev_src.ok THEN DevFrom(dev_src.links, 1) ELSE <<>>)
        /\ ~dev_src.ok => versions.list =
              (IF stable_src.ok THEN StableFrom(stable_src.links, 1) ELSE <<>>)
        /\ wizard_step # "none" => (wizard_step = "None" <=> versions.list = <<>>)

\* the stable source is unreachable, the development page lists a release,
\* and the wizard went on to the choice
C12_Witness ==
    /\ versions.called
    /\ ~stable_src.ok
    /\ dev_src.ok
    /\ Len(versions.list) >= 1
    /\ wizard_step = "chosen"

\* C13: the stable release, if any, is first, the development builds follow
\* in page order, and there are at most 4 development entries.
C13_StableFirstFourDev ==
    versions.called =>
        LET l == versions.list
        IN  /\ \A i \in 1..Len(l) : l[i].is_stable => i = 1
            /\ \A i, j \in 1..Len(l) :
                  (i < j /\ ~l[i].is_stable /\ ~l[j].is_stable) => l[i].url < l[j].url
            /\ Cardinality({ i \in 1..Len(l) : ~l[i].is_stable }) <= 4

\* C14: update_server issues no start, stop or restart command: the service
\* is in the state it was in when update_server was called until the caller
\* resumes, and every command in the log was issued by the caller.
C14_UpdateLeavesServiceAlone ==
    /\ \A e \in systemctl_log : e.by = "menu"
    /\ mpc = "called" => running = running_at_call

\* a successful update of a server the caller had stopped
C14_Witness ==
    /\ mpc = "called"
    /\ UpdReturned
    /\ update_result = "True"
    /\ [by |-> "menu", cmd |-> "stop"] \in systemctl_log
    /\ ~running

\* C15: once the vendor installer has failed in a call, the next call finds
\* the instance directory as it was before the failed call and no _old
\* directory, and if its installer succeeds it returns True with the
\* original configuration in place.
C15_RetryAfterInstallerFailure ==
    prev_returncode = 1 =>
        /\ before = prev_before
        /\ upc \in {"backup", "download", "rename"} => ~temp_dir.exists
        /\ (UpdReturned /\ returncode = 0 /\ update_result = "True") =>
              \A f \in Range(ConfigFiles) :
                  prev_before.files[f] # NoEntry =>
                      server_dir.files[f] = prev_before.files[f]

\* the pre-update tree is at the instance path until the rename and at
\* <port>_old from the rename to the deletion
PreUpdateTreeKept ==
    /\ upc \in {"backup", "download", "rename"} => server_dir = before
    /\ upc \in {"installer", "restore", "maps", "script", "cleanup"} => temp_dir = before

\* <port>_old is deleted in this step (not renamed back)
OldTreeDeleted == temp_dir.exists /\ ~temp_dir'.exists /\ server_dir' = server_dir

\* the new tree holds the backed-up configuration, every *.pk3 of the old
\* tree and a start script
NewTreeComplete ==
    /\ \A f \in Range(ConfigFiles) :
          backup_dir.files[f] # NoEntry => server_dir.files[f] = backup_dir.files[f]
    /\ temp_dir.pk3 \subseteq server_dir.pk3
    /\ server_dir.script

\* C20: <port>_old is deleted only when the configuration is restored, the
\* custom maps are merged and the start script is written; until then the
\* pre-update tree is at the instance path or at <port>_old; after a
\* successful update <port>_old is gone and the backup directory is kept.
C20_OldTreeKeptUntilDone ==
    /\ [](PreUpdateTreeKept)
    /\ []((UpdReturned /\ update_result = "True") =>
              (~temp_dir.exists /\ backup_dir.exists))
    /\ [][OldTreeDeleted => NewTreeComplete]_vars

\* a successful update that restored a user config and merged a custom map
C20_Witness ==
    /\ UpdReturned
    /\ update_result = "True"
    /\ ~temp_dir.exists
    /\ backup_dir.files["etl_server.cfg"] = UserContent
    /\ shipped.files["etl_server.cfg"] = ShippedContent
    /\ "custom.pk3" \in server_dir.pk3

----------------------------------------------------------------------------
(* Claims about the scan of the unit files (SpecReg)                       *)

\* a unit file that names a port and carries the ExecStart line
WellFormed(n) == PortMatch(n) /\ service_dir[n].kind = "unit"

----------------------------------------------------------------------------
(* FirewallManager (specification SpecFw)                                  *)

\* the rule of "ufw allow <port>/udp"
PortRule(q) == ToString(q) \o "/udp"

FtpRules == {"20/tcp", "21/tcp", "990/tcp", "40000:50000/tcp"}

\* the rules held after "ufw allow <r>" for every r of rs: the command
\* fails when the binary is missing
Allow(installed, held, rs) == IF installed THEN held \cup rs ELSE held

\* the log after the same commands
Issued(installed, rs) == { [rule |-> r, installed |-> installed] : r \in rs }

\* "inactive" in status.stdout: an absent binary prints nothing to stdout
SaysInactive(installed, enabled_now) == installed /\ ~enabled_now

InitFw ==
    /\ ufw_installed \in BOOLEAN
    /\ ufw_active \in BOOLEAN
    /\ ufw_active => ufw_installed
    /\ ufw_rules = {}
    /\ fw_log = {}
    /\ fw_last = "none"
    /\ fw_calls = 0

\* FirewallManager.configure(): check is what run_command("which ufw") did
\* ("returned" whatever the exit status, "raised" when the process could not
\* be run), ftp / enable the answers to the prompts, ports the server ports
\* the user allows
Configure ==
    /\ fw_calls < MaxFwCalls
    /\ \E check \in {"returned", "raised"}, ftp \in BOOLEAN,
          ports \in SUBSET Ports, enable \in BOOLEAN :
          LET installed == ufw_installed \/ check = "raised"
              rs == {"OpenSSH"} \cup (IF ftp THEN FtpRules ELSE {})
                        \cup { PortRule(q) : q \in ports }
          IN  /\ ufw_installed' = installed
              /\ ufw_rules' = Allow(installed, ufw_rules, rs)
              /\ fw_log' = fw_log \cup Issued(installed, rs)
              /\ ufw_active' = IF SaysInactive(installed, ufw_active) /\ enable
                               THEN TRUE ELSE ufw_active
    /\ fw_last' = "configure"
    /\ fw_calls' = fw_calls + 1
    /\ UNCHANGED <<cfgVars, regVars, permVars, instVars, updVars, verVars, grpVars, svcVars, envVars>>

\* FirewallManager.configure_for_server(port) as install_server calls it
InstallConfigureForServer ==
    /\ fw_calls < MaxFwCalls
    /\ \E q \in Ports :
          /\ ufw_rules' = Allow(ufw_installed, ufw_rules, {PortRule(q)})
          /\ fw_log' = fw_log \cup Issued(ufw_installed, {PortRule(q)})
    /\ fw_last' = "configure_for_server"
    /\ fw_calls' = fw_calls + 1
    /\ UNCHANGED <<ufw_installed, ufw_active>>
    /\ UNCHANGED <<cfgVars, regVars, permVars, instVars, updVars, verVars, grpVars, svcVars, envVars>>

NextFw == Configure \/ InstallConfigureForServer

InitSpecFw == InitFw /\ InitCfgIdle /\ InitRegIdle /\ InitPermIdle /\ InitInstIdle /\ InitUpdIdle /\ InitVerIdle /\ InitGrpIdle /\ InitSvcIdle /\ InitEnvIdle

SpecFw == InitSpecFw /\ [][NextFw]_vars

\* C17: every allow command was issued with ufw installed, and once a
\* FirewallManager method has returned the filter is enabled.
C17_ToolEnsuredFilterEnabled ==
    /\ \A e \in fw_log : e.installed
    /\ fw_last # "none" => ufw_active

----------------------------------------------------------------------------
(* PermissionsManager.setup_etl_group (specification SpecGrp)              *)

Users == {"alice", "root"}

\* the two usermod -aG calls (lines 22-27), from the database db with the
\* commands cmds issued so far; check=True turns a failure into an
\* exception, caught at line 30
AddMembers(db, user, fail, cmds) ==
    IF fail = "usermod_user"
    THEN [db |-> db, result |-> "False", cmds |-> Append(cmds, "usermod_user")]
    ELSE LET d1 == [db EXCEPT !.members = @ \cup {user}]
             c1 == Append(cmds, "usermod_user")
         IN  IF fail = "usermod_root"
             THEN [db |-> d1, result |-> "False", cmds |-> Append(c1, "usermod_root")]
             ELSE [db |-> [d1 EXCEPT !.members = @ \cup {"root"}],
                   result |-> "True", cmds |-> Append(c1, "usermod_root")]

\* a faulty setup without the getgrnam test: groupadd exits non-zero when
\* the group already exists
SetupGroupAlwaysAdd(db, user, fail) ==
    IF db.exists \/ fail = "groupadd"
    THEN [db |-> db, result |-> "False", cmds |-> <<"groupadd">>]
    ELSE AddMembers([db EXCEPT !.exists = TRUE], user, fail, <<"groupadd">>)

\* setup_etl_group: groupadd only after grp.getgrnam raised KeyError
SetupGroup(db, user, fail) ==
    IF db.exists THEN AddMembers(db, user, fail, <<>>)
    ELSE IF fail = "groupadd"
         THEN [db |-> db, result |-> "False", cmds |-> <<"groupadd">>]
         ELSE AddMembers([db EXCEPT !.exists = TRUE], user, fail, <<"groupadd">>)

InitGrp ==
    /\ grp_db \in {NoGroup} \cup { [exists |-> TRUE, members |-> ms] : ms \in SUBSET (Users \cup {"bob"}) }
    /\ grp_user \in Users
    /\ grp_result = "none"
    /\ grp_cmds = <<>>
    /\ grp_before = grp_db
    /\ grp_fail = "none"
    /\ grp_done_once = FALSE
    /\ grp_calls = 0

\* PermissionsManager.setup_etl_group()
SetupEtlGroupCall ==
    /\ grp_calls < MaxGroupCalls
    /\ \E fail \in {"none", "groupadd", "usermod_user", "usermod_root"} :
          /\ fail = "groupadd" => ~grp_db.exists
          /\ LET r == SetupGroup(grp_db, grp_user, fail)
             IN  /\ grp_db' = r.db
                 /\ grp_result' = r.result
                 /\ grp_cmds' = r.cmds
          /\ grp_fail' = fail
    /\ grp_before' = grp_db
    /\ grp_done_once' = (grp_done_once \/ grp_result = "True")
    /\ grp_calls' = grp_calls + 1
    /\ UNCHANGED grp_user
    /\ UNCHANGED <<cfgVars, regVars, permVars, instVars, updVars, verVars, fwVars, svcVars, envVars>>

NextGrp == SetupEtlGroupCall

InitSpecGrp == InitGrp /\ InitCfgIdle /\ InitRegIdle /\ InitPermIdle /\ InitInstIdle /\ InitUpdIdle /\ InitVerIdle /\ InitFwIdle /\ InitSvcIdle /\ InitEnvIdle

SpecGrp == InitSpecGrp /\ [][NextGrp]_vars

\* C18: a call that returns True leaves the group existing with the
\* invoking user and root as members; after one such call every further
\* call leaves the database unchanged and returns True unless one of its
\* commands fails; groupadd is issued only when the group does not exist.
C18_GroupSetupIdempotent ==
    /\ grp_result = "True" =>
          (grp_db.exists /\ {grp_user, "root"} \subseteq grp_db.members)
    /\ grp_done_once =>
          /\ grp_db = grp_before
          /\ grp_fail = "none" => grp_result = "True"
    /\ (\E i \in 1..Len(grp_cmds) : grp_cmds[i] = "groupadd") => ~grp_before.exists

\* a second successful call after a first successful one
C18_Witness ==
    /\ grp_done_once
    /\ grp_calls >= 2
    /\ grp_result = "True"
    /\ grp_fail = "none"
    /\ grp_db.members = {grp_user, "root"}

----------------------------------------------------------------------------
(* The order of the steps of install_server (Spec)                         *)

\* the steps in the order lines 42-127 run them
StepOrder ==
    << "group", "mkdirs", "apt_update", "apt_install", "download", "installer",
       "configure", "map", "start_script", "unit_server", "unit_restart",
       "unit_timer", "enable", "ftp", "firewall", "permissions", "start" >>

Rank(step) == CHOOSE k \in 1..Len(StepOrder) : StepOrder[k] = step

\* step s ran before position j of the log and succeeded
DoneBefore(s, j) ==
    \E i \in 1..(j - 1) : log[i].step = s /\ log[i].outcome = "ok"

\* C19: the steps of a run appear in the fixed order, each at most once
\* (one download per map); config templating only after the vendor
\* installer exited 0; the service is started only after the three unit
\* files were written and the permissions normalized.
C19_StepsInOrder ==
    /\ \A i, j \in 1..Len(log) :
          i < j => \/ Rank(log[i].step) < Rank(log[j].step)
                   \/ log[i].step = "map" /\ log[j].step = "map"
    /\ \A j \in 1..Len(log) :
          /\ log[j].step = "configure" => DoneBefore("installer", j)
          /\ (log[j].step = "start" /\ log[j].outcome = "ok") =>
                \A st \in {"unit_server", "unit_restart", "unit_timer", "permissions"} :
                    DoneBefore(st, j)

----------------------------------------------------------------------------
(* Custom content across update_server (SpecUpd)                           *)

\* C21: after a successful update_server every file of the old tree that
\* the new release does not ship (the *.pk3 of etmain, the files of legacy/)
\* is in the new tree, and every file the release shipped is still there.
C21_CustomContentMerged ==
    (UpdReturned /\ update_result = "True") =>
        /\ (before.pk3 \ shipped.pk3) \subseteq server_dir.pk3
        /\ (before.legacy \ shipped.legacy) \subseteq server_dir.legacy
        /\ shipped.pk3 \subseteq server_dir.pk3
        /\ shipped.legacy \subseteq server_dir.legacy

----------------------------------------------------------------------------
(* SystemServiceManager.configure_etl_services, one action per write or    *)
(* command (specification SpecSvc)                                         *)

\* f"etlserver-{port}.service", f"etlrestart-{port}.service",
\* f"etlmonitor-{port}.timer"
ServerUnitName(port) == "etlserver-" \o ToString(port) \o ".service"
RestartUnitName(port) == "etlrestart-" \o ToString(port) \o ".service"
TimerUnitName(port) == "etlmonitor-" \o ToString(port) \o ".timer"

\* the three texts, by the fields the arguments fill in
ServerService(port, dir) ==
    [Description |-> port, ExecStart |-> dir \o <<"etl_start.sh">>,
     Restart |-> "always", WantedBy |-> "network-up.target"]

RestartService(port) ==
    [Description |-> port, ExecStart |-> <<"/bin/systemctl", "restart", ServerUnitName(port)>>]

MonitorTimer(port) ==
    [Description |-> ServerUnitName(port), Requires |-> RestartUnitName(port),
     Unit |-> RestartUnitName(port), OnCalendar |-> "*-*-* 5:00:00",
     WantedBy |-> "timers.target"]

\* lines 48-55: the files written, in order
WriteSteps(a) ==
    << [name |-> ServerUnitName(a.port), text |-> ServerService(a.port, a.server_dir)],
       [name |-> RestartUnitName(a.port), text |-> RestartService(a.port)],
       [name |-> TimerUnitName(a.port), text |-> MonitorTimer(a.port)] >>

\* a faulty version that enables every unit it wrote
EnableEveryUnit(port) ==
    <<ServerUnitName(port), RestartUnitName(port), TimerUnitName(port)>>

\* lines 61-62: the units enabled, in order
EnableSteps(port) == <<ServerUnitName(port), TimerUnitName(port)>>

Did(op, arg) == svc_trace' = Append(svc_trace, [op |-> op, arg |-> arg])

\* line 66-68: an exception is caught and the function returns False
SvcCaught ==
    /\ svc_pc' = "idle"
    /\ svc_result' = "False"

InitSvc ==
    /\ svc_pc = "idle"
    /\ svc_args = NoArgs
    /\ svc_i = 1
    /\ svc_units = <<>>
    /\ svc_trace = <<>>
    /\ svc_result = "none"
    /\ svc_calls = 0

\* configure_etl_services(install_dir, port, server_dir) is called
ConfigureEtlServices ==
    /\ svc_pc = "idle"
    /\ svc_calls < MaxSvcCalls
    /\ \E d \in InstallDirs, q \in Ports :
          svc_args' = [install_dir |-> d, port |-> q, server_dir |-> ServerDir(d, q)]
    /\ svc_calls' = svc_calls + 1
    /\ svc_trace' = <<>>
    /\ svc_result' = "none"
    /\ svc_i' = 1
    /\ svc_pc' = "write"
    /\ UNCHANGED svc_units
    /\ UNCHANGED <<cfgVars, regVars, permVars, instVars, updVars, verVars, fwVars, grpVars, envVars>>

\* one of the three with open(...) as f: f.write(...) of lines 48-55; open
\* may raise
SvcWrite ==
    /\ svc_pc = "write"
    /\ LET w == WriteSteps(svc_args)[svc_i]
       IN  \E o \in {"ok", "raised"} :
              IF o = "ok"
              THEN /\ svc_units' = [n \in DOMAIN svc_units \cup {w.name} |->
                                      IF n = w.name THEN w.text ELSE svc_units[n]]
                   /\ Did("write", w.name)
                   /\ IF svc_i = Len(WriteSteps(svc_args))
                      THEN svc_pc' = "reload" /\ svc_i' = 1
                      ELSE svc_pc' = "write" /\ svc_i' = svc_i + 1
                   /\ UNCHANGED svc_result
              ELSE /\ SvcCaught
                   /\ UNCHANGED <<svc_units, svc_trace, svc_i>>
    /\ UNCHANGED <<svc_args, svc_calls>>
    /\ UNCHANGED <<cfgVars, regVars, permVars, instVars, updVars, verVars, fwVars, grpVars, envVars>>

\* line 58: run_command("systemctl daemon-reload"); check=False, so a
\* non-zero exit status is not looked at; a command that cannot be run raises
SvcReload ==
    /\ svc_pc = "reload"
    /\ \E o \in {"ok", "nonzero", "raised"} :
          IF o = "raised"
          THEN SvcCaught /\ UNCHANGED svc_trace
          ELSE /\ Did("run", "systemctl daemon-reload")
               /\ svc_pc' = "enable"
               /\ UNCHANGED svc_result
    /\ UNCHANGED <<svc_args, svc_i, svc_units, svc_calls>>
    /\ UNCHANGED <<cfgVars, regVars, permVars, instVars, updVars, verVars, fwVars, grpVars, envVars>>

\* lines 61-65: one systemctl enable; after the last one, return True
SvcEnable ==
    /\ svc_pc = "enable"
    /\ LET unit == EnableSteps(svc_args.port)[svc_i]
           last == svc_i = Len(EnableSteps(svc_args.port))
       IN  \E o \in {"ok", "nonzero", "raised"} :
              IF o = "raised"
              THEN SvcCaught /\ UNCHANGED <<svc_trace, svc_i>>
              ELSE /\ Did("enable", unit)
                   /\ svc_i' = IF last THEN 1 ELSE svc_i + 1
                   /\ svc_pc' = IF last THEN "idle" ELSE "enable"
                   /\ svc_result' = IF last THEN "True" ELSE svc_result
    /\ UNCHANGED <<svc_args, svc_units, svc_calls>>
    /\ UNCHANGED <<cfgVars, regVars, permVars, instVars, updVars, verVars, fwVars, grpVars, envVars>>

NextSvc ==
    \/ ConfigureEtlServices
    \/ SvcWrite
    \/ SvcReload
    \/ SvcEnable

InitSpecSvc == InitSvc /\ InitCfgIdle /\ InitRegIdle /\ InitPermIdle /\ InitInstIdle /\ InitUpdIdle /\ InitVerIdle /\ InitFwIdle /\ InitGrpIdle /\ InitEnvIdle

SpecSvc == InitSpecSvc /\ [][NextSvc]_vars

\* what the call did before position i of its trace
DoneBy(i, op) == { svc_trace[j].arg : j \in { k \in 1..(i - 1) : svc_trace[k].op = op } }

\* C22: in a configure_etl_services call the reload comes after the writes
\* of the three unit files of the port, every enable comes after the
\* reload and names the server unit or the timer of the port, never the
\* restart unit, and a call that returned True enabled both.
C22_WriteReloadEnable ==
    LET q == svc_args.port
    IN  /\ \A i \in 1..Len(svc_trace) :
              /\ svc_trace[i].op = "run" =>
                    {ServerUnitName(q), RestartUnitName(q), TimerUnitName(q)}
                        \subseteq DoneBy(i, "write")
              /\ svc_trace[i].op = "enable" =>
                    /\ DoneBy(i, "run") # {}
                    /\ svc_trace[i].arg \in {ServerUnitName(q), TimerUnitName(q)}
              /\ svc_trace[i].op = "write" =>
                    DoneBy(i, "run") = {} /\ DoneBy(i, "enable") = {}
        /\ svc_result = "True" =>
              DoneBy(Len(svc_trace) + 1, "enable") = {ServerUnitName(q), TimerUnitName(q)}

\* a call that wrote, reloaded, enabled and returned True
C22_Witness ==
    /\ svc_result = "True"
    /\ Len(svc_trace) = 6
    /\ svc_trace[6] = [op |-> "enable", arg |-> TimerUnitName(svc_args.port)]
    /\ RestartUnitName(svc_args.port) \in DOMAIN svc_units

----------------------------------------------------------------------------
(* The map batch of install_server (Spec)                                  *)

\* the "map" entries of the log of the call
MapLog == SelectSeq(log, LAMBDA e : e.step = "map")

\* C23: the maps are attempted in list order, each once; an attempt that
\* failed (non-zero exit status or exception) has a warning and nothing
\* else; after a map attempt comes the next map or, after the last one,
\* the start script: once the batch is left every map was attempted.
C23_MapFailureContinues ==
    /\ Len(map_attempts) = Len(MapLog)
    /\ Len(map_attempts) <= NumMaps
    /\ \A i \in 1..Len(map_attempts) :
          /\ map_attempts[i].map_file = MapsList[i]
          /\ map_attempts[i].warning = (MapLog[i].outcome # "ok")
    /\ \A i \in 1..Len(log) :
          log[i].step = "map" =>
              IF i < Len(log)
              THEN log[i + 1].step \in {"map", "start_script"}
              ELSE pc \in {"map", "start_script"}
    /\ (\E i \in 1..Len(log) : log[i].step = "start_script") =>
          (Truthy(cur.install_maps) => Len(map_attempts) = NumMaps)
    /\ pc = "map" => Len(map_attempts) < NumMaps

\* the first map failed, the others were attempted and the start script
\* was written
C23_Witness ==
    /\ Len(map_attempts) = NumMaps
    /\ map_attempts[1].warning
    /\ \E i \in 1..Len(log) : log[i].step = "start_script" /\ log[i].outcome = "ok"

----------------------------------------------------------------------------
(* The frame of _configure_server (SpecCfg)                                *)

\* the lines of a file: the tokens between line feeds
RECURSIVE LinesOf(_)
LinesOf(s) ==
    IF s = <<>> THEN <<>>
    ELSE LET nl == FirstIdx(s, 1, {NL})
         IN  <<Slice(s, 1, nl - 1)>> \o
             (IF nl >= Len(s) THEN <<>> ELSE LinesOf(Slice(s, nl + 1, Len(s))))

\* the directives a file carries
DirectiveKeys(content) == Range(content) \cap Directives

\* what a _configure_server call may change: in is the file before the
\* call, out the file after it
OnlyValuesChanged(in, out) ==
    IF in = NoFile THEN out = NoFile
    ELSE /\ out # NoFile
         /\ DirectiveKeys(out) = DirectiveKeys(in)
         /\ Len(LinesOf(out)) = Len(LinesOf(in))
         /\ \A i \in 1..Len(LinesOf(in)) :
               DirectiveKeys(LinesOf(in)[i]) = {} => LinesOf(out)[i] = LinesOf(in)[i]

\* C24: a _configure_server call ends without an error, leaves the set of
\* directives of the file as it was (a setting whose directive the file
\* lacks is dropped), leaves every line without a directive unchanged and
\* writes nothing when the file does not exist.
C24_NeverAddsDirective ==
    [][applied' = applied + 1 =>
          /\ ~cfg_raised'
          /\ OnlyValuesChanged(cfg_content, cfg_content')]_vars

----------------------------------------------------------------------------
(* The abort of install_server on a vendor installer failure (SpecCall)    *)

\* the steps of install_server after the vendor installer
LaterSteps == {"configure", "map", "start_script", "unit_server", "unit_restart",
               "unit_timer", "enable", "ftp", "firewall", "permissions", "start"}

\* C25: when install_server returned False the vendor installer step is
\* the last step of the call, the instance directory and the downloaded
\* artifact exist, and there is no start script, no unit file, no firewall
\* rule and no started service for the port.
C25_AbortKeepsAndStops ==
    (Returned /\ result = "False") =>
        /\ log[Len(log)] = [step |-> "installer", outcome |-> "returned"]
        /\ \A i \in 1..Len(log) : log[i].step \notin LaterSteps
        /\ fs[Key].exists
        /\ artifact
        /\ fs[Key].script_port = "none"
        /\ server_unit[cur.port] = NoPath
        /\ restart_unit[cur.port] = 0
        /\ timer_unit[cur.port] = 0
        /\ cur.port \notin enabled
        /\ cur.port \notin fw_rules
        /\ ~active[cur.port]

\* install_server returned False
C25_Witness ==
    /\ Returned
    /\ result = "False"
    /\ fs[Key].exists
    /\ ~fs[Key].installed

----------------------------------------------------------------------------
(* A failed download in update_server (SpecUpd)                            *)

\* C26: when the download of update_server fails, the call ends with the
\* instance directory at its path as it was when the call began, with
\* <port>_old as it was (none when none was there) and with the vendor
\* installer not run.
C26_DownloadFailsBeforeRename ==
    [][(upc = "download" /\ update_result' = "raised") =>
          /\ upc' = "idle"
          /\ server_dir' = before
          /\ server_dir' = server_dir
          /\ temp_dir' = temp_dir
          /\ ~temp_dir.exists => ~temp_dir'.exists
          /\ returncode' = -1
          /\ shipped' = Absent]_vars

\* update_server ended by an exception after the backup was taken, with
\* nothing renamed and no installer run: the download failed
C26_Witness ==
    /\ UpdReturned
    /\ update_result = "raised"
    /\ backup_dir.files["etl_server.cfg"] = UserContent
    /\ server_dir = before
    /\ server_dir.exists
    /\ ~temp_dir.exists
    /\ returncode = -1

----------------------------------------------------------------------------
(* The caller of update_server (SpecUpd)                                   *)

MenuStart == [by |-> "menu", cmd |-> "start"]

\* C27: update_server is never called while the service is active (a
\* server seen running was stopped, or the update was cancelled), and the
\* menu starts the server after an update only when it had seen it running
\* and update_server returned True.
C27_NoUpdateWhileActive ==
    /\ [](mpc = "called" => ~running_at_call)
    /\ [][(mpc = "called" /\ mpc' = "menu" /\ running' # running) =>
             (is_running /\ update_result = "True")]_vars
    /\ [][(MenuStart \notin systemctl_log /\ MenuStart \in systemctl_log') =>
             (mpc = "called" /\ is_running /\ update_result = "True")]_vars

----------------------------------------------------------------------------
(* install_server, get_installed_servers, update_server (Spec)             *)

\* the records a get_installed_servers call returns now
ListedServers ==
    LET order == CHOOSE o \in Orders(DOMAIN InstalledUnits) : TRUE
    IN  Range(ScanAll(order, InstalledUnits,
                      [n \in DOMAIN InstalledUnits |-> NoFile], "Unknown"))

\* server_dir of update_server(server_info, ...), lines 147-149
UpdateServerDir(server_info) ==
    server_info.installDir \o <<"et", ToString(server_info.port)>>

\* C28: after install_server returned True for directory D and port P,
\* get_installed_servers returns a record with port P, dir D/et/P and
\* installDir D, and update_server computes D/et/P from it.
C28_RegistryRoundTrip ==
    (Returned /\ result = "True") =>
        \E r \in ListedServers :
            /\ r.port = cur.port
            /\ r.dir = ServerDir(cur.installDir, cur.port)
            /\ r.installDir = <<"", cur.installDir>>
            /\ UpdateServerDir(r) = ServerDir(cur.installDir, cur.port)

----------------------------------------------------------------------------
(* The places that carry the port after install_server (Spec)              *)

\* C29: after install_server returned True for port P the instance
\* directory <installDir>/et/P exists, the net_port directive of its config
\* file and the net_port of its start script are P, the server unit starts
\* the script of that directory, the restart unit and the timer name P,
\* and, when the firewall was requested, the rule P/udp is applied.
C29_PortAgreement ==
    (Returned /\ result = "True") =>
        /\ fs[Key].exists
        /\ fs[Key].cfg_port = ToString(cur.port)
        /\ fs[Key].script_port = ToString(cur.port)
        /\ server_unit[cur.port] = ServerDir(cur.installDir, cur.port)
        /\ restart_unit[cur.port] = cur.port
        /\ timer_unit[cur.port] = cur.port
        /\ IsTrue(cur.configure_firewall) => cur.port \in fw_rules

----------------------------------------------------------------------------
(* ConfigManager.save_env_file and load_env_file (specification SpecEnv)   *)

SQ == "SQ"          \* single quote
EQ == "="
HASH == "#"

\* Python values of a config mapping: str and int by their text, bool, and
\* the dict of a version
PyStr(s) == [t |-> "str", v |-> s]
PyInt(s) == [t |-> "int", v |-> s]
PyBool(b) == [t |-> "bool", v |-> b]
VersionDict(version, url) == [t |-> "dict", version |-> version, url |-> url]

\* "{x}" in an f-string
Format(x) ==
    CASE x.t \in {"str", "int"} -> x.v
      [] x.t = "bool" -> IF x.v THEN <<"True">> ELSE <<"False">>
      [] OTHER -> <<"{...}">>

\* the truth value of x in a conditional expression
PyTruth(x) ==
    CASE x.t = "bool" -> x.v
      [] x.t \in {"str", "int"} -> x.v # <<>>
      [] OTHER -> TRUE

\* lines 73-74:  <key>={"true" if config.get(<key>, True) else "false"}
FlagLine(key, c) ==
    <<key, EQ, IF PyTruth(Get(c, key, PyBool(TRUE))) THEN "true" ELSE "false">>

\* <key>="<value>"  and  <key>=<value>
QuotedLine(key, c, default) == <<key, EQ, Q>> \o Format(Get(c, key, PyStr(default))) \o <<Q>>
BareLine(key, c, default) == <<key, EQ>> \o Format(Get(c, key, PyStr(default)))

\* the lines save_env_file writes (lines 46-74); <<>> is an empty line
SaveEnvFile(c) ==
    << <<HASH, WS, "ET Legacy Server Configuration">>,
       <<>>,
       <<HASH, WS, "Server Information">>,
       QuotedLine("servername", c, <<>>),
       BareLine("port", c, <<"27960">>),
       BareLine("sv_maxclients", c, <<"16">>),
       QuotedLine("g_password", c, <<>>),
       BareLine("sv_privateclients", c, <<"0">>),
       QuotedLine("sv_privatepassword", c, <<>>),
       QuotedLine("rconpassword", c, <<>>),
       QuotedLine("refereepassword", c, <<>>),
       QuotedLine("ShoutcastPassword", c, <<>>),
       QuotedLine("sv_wwwBaseURL", c, <<>>),
       <<>>,
       <<HASH, WS, "Installation Information">>,
       QuotedLine("installDir", c, <<"/home/etlegacy">>),
       QuotedLine("ftpuser", c, <<>>) >>
    \o (IF "version" \in DOMAIN c /\ c["version"].t = "dict"
        THEN << <<"version", EQ, Q>> \o c["version"].version \o <<Q>>,
                <<"version_url", EQ, Q>> \o c["version"].url \o <<Q>> >>
        ELSE <<>>)
    \o << <<>>,
          <<HASH, WS, "Additional Options">>,
          FlagLine("install_maps", c),
          FlagLine("configure_firewall", c) >>

\* str.strip() of a line or a part of one
Strip(s) ==
    LET a == FirstNotIdx(s, 1, {WS})
        keep == { i \in 1..Len(s) : s[i] # WS }
    IN  IF keep = {} THEN <<>>
        ELSE Slice(s, a, CHOOSE i \in keep : \A k \in keep : k <= i)

\* lines 31-33: one pair of enclosing quotes is removed
Unquote(value) ==
    IF /\ Len(value) >= 1
       /\ \/ value[1] = Q /\ value[Len(value)] = Q
          \/ value[1] = SQ /\ value[Len(value)] = SQ
    THEN Slice(value, 2, Len(value) - 1)
    ELSE value

\* the key text of a line; every line save_env_file writes has a one-token key
KeyOf(k) == IF Len(k) = 1 THEN k[1] ELSE ""

\* lines 20-35: the mapping after the lines from i on, acc before them
RECURSIVE LoadFrom(_, _, _)
LoadFrom(lines, i, acc) ==
    IF i > Len(lines) THEN acc
    ELSE LET line == Strip(lines[i])
         IN  IF line = <<>> \/ line[1] = HASH \/ EQ \notin Range(line)
             THEN LoadFrom(lines, i + 1, acc)
             ELSE LET e == FirstIdx(line, 1, {EQ})
                      key == KeyOf(Strip(Slice(line, 1, e - 1)))
                      value == Unquote(Strip(Slice(line, e + 1, Len(line))))
                  IN  LoadFrom(lines, i + 1,
                               [k \in DOMAIN acc \cup {key} |->
                                  IF k = key THEN PyStr(value) ELSE acc[k]])

LoadEnvFile(lines) == LoadFrom(lines, 1, <<>>)

\* the strings a prompt can return
RECURSIVE EnvStrOfLen(_)
EnvStrOfLen(n) ==
    IF n = 0 THEN { <<>> }
    ELSE { Append(s, ch) : s \in EnvStrOfLen(n - 1), ch \in {Letter, Q, SQ, WS} }

EnvStrings == UNION { EnvStrOfLen(n) : n \in 0..MaxEnvLen }

\* the mappings save_env_file is called with: the wizard's (every key, int
\* and bool values, the version dict) and partial ones
EnvConfigs ==
    { [ key \in ({"servername"}
                 \cup (IF full THEN {"port", "installDir", "version"} ELSE {})
                 \cup (IF maps # "absent" THEN {"install_maps"} ELSE {})
                 \cup (IF fw # "absent" THEN {"configure_firewall"} ELSE {})) |->
          CASE key = "servername" -> PyStr(name)
            [] key = "port" -> PyInt(<<"27961">>)
            [] key = "installDir" -> PyStr(<<"/srv">>)
            [] key = "version" -> VersionDict(<<"2.83.1">>, <<"https://x">>)
            [] key = "install_maps" -> PyBool(maps = "true")
            [] OTHER -> PyBool(fw = "true") ] :
        name \in EnvStrings, full \in BOOLEAN,
        maps \in {"absent", "true", "false"}, fw \in {"absent", "true", "false"} }

InitEnv ==
    /\ env_pc = "save"
    /\ env_config \in EnvConfigs
    /\ env_file = <<>>
    /\ env_loaded = <<>>
    /\ env_file2 = <<>>

\* save_env_file(filename, config)
SaveEnvFileCall ==
    /\ env_pc = "save"
    /\ env_file' = SaveEnvFile(env_config)
    /\ env_pc' = "load"
    /\ UNCHANGED <<env_config, env_loaded, env_file2>>
    /\ UNCHANGED <<cfgVars, regVars, permVars, instVars, updVars, verVars, fwVars, grpVars, svcVars>>

\* load_env_file(filename)
LoadEnvFileCall ==
    /\ env_pc = "load"
    /\ env_loaded' = LoadEnvFile(env_file)
    /\ env_pc' = "save_again"
    /\ UNCHANGED <<env_config, env_file, env_file2>>
    /\ UNCHANGED <<cfgVars, regVars, permVars, instVars, updVars, verVars, fwVars, grpVars, svcVars>>

\* save_env_file(filename, the loaded mapping)
SaveLoadedCall ==
    /\ env_pc = "save_again"
    /\ env_file2' = SaveEnvFile(env_loaded)
    /\ env_pc' = "done"
    /\ UNCHANGED <<env_config, env_file, env_loaded>>
    /\ UNCHANGED <<cfgVars, regVars, permVars, instVars, updVars, verVars, fwVars, grpVars, svcVars>>

NextEnv ==
    \/ SaveEnvFileCall
    \/ LoadEnvFileCall
    \/ SaveLoadedCall

InitSpecEnv == InitEnv /\ InitCfgIdle /\ InitRegIdle /\ InitPermIdle /\ InitInstIdle /\ InitUpdIdle /\ InitVerIdle /\ InitFwIdle /\ InitGrpIdle /\ InitSvcIdle

SpecEnv == InitSpecEnv /\ [][NextEnv]_vars

\* the keys with a text value
StringKeys == {"servername", "installDir"}

\* C30: the file written for the mapping loaded from a saved file is that
\* file; install_maps and configure_firewall have the truth value they had
\* and the text values have the text they had.
C30_EnvRoundTrip ==
    env_pc = "done" =>
        /\ env_file2 = env_file
        /\ \A key \in {"install_maps", "configure_firewall"} :
              PyTruth(Get(env_loaded, key, PyBool(TRUE)))
                  = PyTruth(Get(env_config, key, PyBool(TRUE)))
        /\ \A key \in StringKeys \cap DOMAIN env_config :
              env_loaded[key] = env_config[key]

====
